---- MODULE Spec2Model ----
(***************************************************************************)
(* A model of the log pipeline of logflow-anomaly-detector: the file       *)
(* tailer and LogStream (internal/stream/log_stream.go), the metrics       *)
(* collector (internal/analyzer, metrics), the detector task and the       *)
(* dashboard's input handler and broadcast loop.                           *)
(*                                                                         *)
(* The specifications share the variables:                                 *)
(*   TailerSpec    the tailer reading a file that is appended to,          *)
(*                 truncated and rotated, with LogStream.Start consuming   *)
(*   LifecycleSpec the tailer, LogStream.Start and a client under          *)
(*                 cancellation and Stop                                   *)
(*   CollectorSpec concurrent callers of the MetricsCollector              *)
(*   PipelineSpec  the tasks of the pipeline and the channels between them *)
(* A specification leaves the variables of the other parts unchanged.      *)
(***************************************************************************)
EXTENDS Integers, Sequences, FiniteSets, TLC

(***************************************************************************)
(* Bounds of the model.                                                    *)
(***************************************************************************)
\* appends the environment makes to the watched path
MaxAppends == 3
\* rename/remove rotations of the watched path
MaxRotations == 1
\* truncations of the watched file
MaxTruncs == 1
\* watcher events waiting in watcher.Events
MaxEvents == 2
\* capacity of the tailer's line channel (100 at log_stream.go:87), scaled down
LineChanCap == 2
\* capacity of the channels the missing main wires between the tasks (the
\* specification suggests 100), scaled down
ChanCap == 2
\* calls of Tailer.Stop made by a client other than LogStream.Start
MaxExtStops == 1
\* appends the environment makes while the tailer is started and stopped
LifeAppends == 1
\* capacity of the history (maxHistoricalSize, 100 at part_005:46), scaled down
MaxHistoricalSize == 2
\* AddLogEntry calls made by the callers of the collector
MaxAdds == 2
\* writes a caller makes to a value the collector returned
MaxMutations == 1
\* clock units in one second, and the last instant of the clock
UnitsPerSec == 2
MaxClock == 2
\* ticks the detector's ticker fires
MaxTicks == 2
\* ticks of the ticker while the detector's output is not read
MaxBackedTicks == 8
MaxParsers == 2
MaxDetectTicks == 11
MaxTopKeys == 4
MaxTopCount == 3
ExampleLimit == 3
MaxIngestAppends == 4
MaxIngestTicks == 1
MaxParseCallers == 2
MaxParseCalls == 3
\* capacity of s.broadcast (100 at part_002:39), scaled down
BroadcastCap == 2
\* seconds the program ran with no log line before the state PipelineSpec and
\* DashboardSpec start in: one snapshot short of the 10 StdDevDetector needs
IdleTicks == 9
\* WebSocket connections made to the dashboard
MaxClients == 2
\* ticks of the detector's ticker in the whole pipeline
MaxPipeTicks == 1
\* Detect calls made on one detector
MaxCalls == 3
\* Detect calls made in a run on an initialized CUSUM detector
MaxRunCalls == 11
\* distinct snapshots observed in one run
RunKinds == 2

(***************************************************************************)
(* Bytes. A payload byte is a number from 2 to 9, unique to the append     *)
(* that wrote it, so that a line is identified by its bytes.               *)
(***************************************************************************)
\* '\n', the delimiter of ReadString
NL == 10
\* '\r'
CR == 13
\* the payload byte of content that is in the file before Tailer.Start
PreByte == 2

VARIABLES
    \* ---- file system and watcher (environment)
    files,          \* inode -> content, a sequence of bytes; Len is the number of inodes
    pathIno,        \* inode the watched path names, 0 if the path does not exist
    events,         \* watcher.Events: pending fsnotify events
    nAppends, nRot, nTrunc,
    budget,         \* what the environment may do: [appends, rotations, truncs, kinds,
                    \* ticks]
    \* ---- Tailer fields
    file,           \* t.file: [ino, pos, open]; ino = 0 is the nil pointer
    offset,         \* t.offset
    incomplete,     \* t.incomplete
    reader,         \* t.reader: the bytes bufio has read from the file and
                    \* ReadString has not yet returned
    watcher,        \* t.watcher: "nil" or "set"
    watcherOpen,    \* the fsnotify watcher exists and has not been closed
    lineChan,       \* t.lineChan: buffered lines
    lineChanClosed, \* close(t.lineChan) has run
    stopCh,         \* t.stopCh: "open" or "closed"
    tlPc,           \* tailLoop: "idle", "top", "blocked", "write", "create",
                    \* "read", "sleep", "done"
    \* ---- LogStream.Start
    lsPc,           \* "init", "loop", "send", "stop1", "stop2", "done"
    lsHeld,         \* the parsed entry LogStream is sending
    output,         \* the channel LogStream.Start writes entries to
    \* ---- control
    cancelled,      \* ctx.Done() is closed
    panicked,       \* "none", or the run-time panic that ended the process
    xPc,            \* a client calling Tailer.Stop: "idle", "stop1", "stop2"
    nStops,         \* Stop calls that were begun
    \* ---- history variables
    emitted,        \* every line put on lineChan, in order
    appended,       \* the complete non-empty lines appended after Start
    dropped,        \* every line the full line channel made the tailer drop:
                    \* [line, at, end, off], at the number of lines emitted
                    \* before, end the file offset behind the line, off t.offset
    \* ---- MetricsCollector
    mc,             \* [currentWindow, historicalMetrics] and the heap of their
                    \* maps and slices: [maps, slices], addressed by index
    mu,             \* mc.mu: [w |-> exclusive holder or 0, r |-> shared holders]
    now,            \* the clock, in units
    cpc,            \* caller -> where it is in a collector method
    arg,            \* caller -> the entry of its AddLogEntry call
    res,            \* caller -> the metrics of its GetCurrentMetrics call
    heldSnap,       \* what the last GetCurrentMetrics returned (*metrics)
    heldHist,       \* what the last GetHistoricalMetrics returned
    nAdds, nRolls, nMut,
    \* ---- history variables of the collector
    counted,        \* [total, errors]: entries AddLogEntry has counted
    sources,        \* the window each snapshot was computed from
    frozen,         \* each snapshot as computed, maps and slices resolved
    \* ---- AnomalyDetector.Start
    adPc,           \* "select", "send", "done"
    adQueue,        \* the values of this tick that are still to be sent
    detOut,         \* the channel AnomalyDetector.Start writes to
    tickPending,    \* ticker.C holds a tick
    nTicks,         \* ticks the ticker has fired
    tickNo,         \* ticks the detector has handled
    \* ---- dashboard.Server
    hiPc,           \* handleInput: "select", "send", "done"
    hiHeld,         \* the value handleInput is sending
    broadcast,      \* s.broadcast
    blPc,           \* broadcastLoop: "select", "rlock", "write", "remove", "done"
    blMsg,          \* the message broadcastLoop is writing
    blClient,       \* the client whose write failed in the range of broadcastLoop
    clients,        \* s.clients
    wsPc,           \* connection -> handleWebSocket: "idle", "lock", "open",
                    \* "remove", "closed"
    \* ---- history variables of the pipeline
    outLog,         \* every value the detector has sent, in order
    relayed,        \* every value handleInput has put on s.broadcast, in order
    broadcasted,    \* every value broadcastLoop has taken from s.broadcast, in order
    \* ---- DetectionAlgorithm
    det,            \* ad.algorithm: the detector object, with its kind
    dHist,          \* mc.historicalMetrics of the detector's collector
    dBudget,        \* what the caller may do: [calls, obs, hists]
    nCalls,         \* Detect calls made
    \* ---- history variables of the detector
    lastCall,       \* the last Detect call: [cur, hist, pre, out]
    run,            \* metric -> [x, n]: the last n calls of an initialized CUSUM
                    \* observed x for the metric and emitted nothing for it
    \* ---- parser.LogParser
    parsers,        \* instance -> the parser object NewParser returned
    psPc,           \* caller -> where it is in Parse: "idle", "json", "check",
                    \* "compile", "match"
    psArg,          \* caller -> [inst, line] of its Parse call
    psRes,          \* caller -> what its last Parse call returned
    nCompiles,      \* regexp.MustCompile calls the process has made
    nParses,        \* Parse calls that were begun
    \* ---- getTopPaths, getTopIPs, getTopUserAgents as functions
    topIn,          \* the map a caller passes: key -> count
    topLimit,       \* the limit it passes
    topOut,         \* [fn, result]: the function called and the slice returned
    \* ---- history variable of the detector constructors
    ctor            \* [fn, a, b]: the constructor that built det, and its arguments

fsVars == <<files, pathIno, events, nAppends, nRot, nTrunc, budget>>
tVars == <<file, offset, incomplete, reader, watcher, watcherOpen, lineChan, lineChanClosed,
           stopCh, tlPc>>
lsVars == <<lsPc, lsHeld, output>>
ctlVars == <<cancelled, panicked, xPc, nStops>>
histVars == <<emitted, appended, dropped>>
tailerVars == <<fsVars, tVars, lsVars, ctlVars, histVars>>
callerVars == <<mu, cpc, arg, res, heldSnap, heldHist, nAdds, nRolls, nMut>>
collectorVars == <<mc, now, callerVars, counted, sources, frozen>>

pipeVars == <<adPc, adQueue, detOut, tickPending, nTicks, tickNo, hiPc, hiHeld,
              broadcast, blPc, blMsg, blClient, clients, wsPc, outLog, relayed,
              broadcasted>>

detVars == <<det, dHist, dBudget, nCalls, lastCall, run>>

parserVars == <<parsers, psPc, psArg, psRes, nCompiles, nParses>>

topVars == <<topIn, topLimit, topOut>>

ctorVars == <<ctor>>

\* what no action of the tailer, of LogStream or of the file system touches
otherVars == <<collectorVars, pipeVars, detVars, parserVars, topVars,
                   ctorVars>>

vars == <<tailerVars, collectorVars, pipeVars, detVars, parserVars, topVars,
                   ctorVars>>

(***************************************************************************)
(* Helpers on sequences.                                                   *)
(***************************************************************************)
Range(s) == {s[i] : i \in 1..Len(s)}

Max(a, b) == IF a >= b THEN a ELSE b

Min(a, b) == IF a <= b THEN a ELSE b

NoDuplicates(s) == \A i, j \in 1..Len(s) : i # j => s[i] # s[j]

IsPrefix(s, t) == Len(s) <= Len(t) /\ SubSeq(t, 1, Len(s)) = s

(***************************************************************************)
(* Tailer.                                                                 *)
(***************************************************************************)
NilFile == [ino |-> 0, pos |-> 0, open |-> FALSE]

\* os.Open(path): a fresh handle at position 0
OpenFile(ino) == [ino |-> ino, pos |-> 0, open |-> TRUE]

\* index of the first '\n' of d, 0 if there is none: where ReadString('\n') stops
IndexNL(d) ==
    IF \E i \in 1..Len(d) : d[i] = NL
    THEN CHOOSE i \in 1..Len(d) : d[i] = NL /\ \A j \in 1..(i - 1) : d[j] # NL
    ELSE 0

\* lines 253-261: drop one trailing '\n', then one trailing '\r'
StripEOL(line) ==
    LET a == IF Len(line) > 0 /\ line[Len(line)] = NL
             THEN SubSeq(line, 1, Len(line) - 1) ELSE line
    IN IF Len(a) > 0 /\ a[Len(a)] = CR THEN SubSeq(a, 1, Len(a) - 1) ELSE a

\* lines 272-277: the non-blocking send; a full channel drops the line
TrySend(ch, line) == IF Len(ch) < LineChanCap THEN Append(ch, line) ELSE ch

\* The state readNewLines and reopenFile work on; pc is the position of
\* tailLoop.
ReadState == [file |-> file, incomplete |-> incomplete, offset |-> offset,
              reader |-> reader, lineChan |-> lineChan, emitted |-> emitted,
              dropped |-> dropped, pc |-> tlPc]

\* One iteration of the read loop of readNewLines (lines 232-278).
\* ReadString('\n') returns the next line of the reader's buffer; when the
\* buffer holds no '\n' it first fills the buffer with what the file
\* holds behind the handle's position. Modelled files are shorter than bufio's
\* buffer, so a fill reads up to the end of the file. pc is "read" when the
\* loop goes on and "top" when it breaks and readNewLines returns.
ReadLoop(s, fs) ==
    LET size == Len(fs[s.file.ino])
        pos == s.file.pos
        fill == IndexNL(s.reader) = 0
        buf == IF fill /\ pos < size
               THEN s.reader \o SubSeq(fs[s.file.ino], pos + 1, size)
               ELSE s.reader
        newPos == IF fill THEN Max(pos, size) ELSE pos
        i == IndexNL(buf)
        s0 == [s EXCEPT !.file.pos = newPos]
    IN IF i = 0
       THEN \* io.EOF: the partial line, when not empty, replaces t.incomplete
            [s0 EXCEPT !.incomplete = IF buf # <<>> THEN buf ELSE s.incomplete,
                       !.reader = <<>>,
                       !.pc = "top"]
       ELSE LET raw == SubSeq(buf, 1, i)
                joined == IF s.incomplete # <<>> THEN s.incomplete \o raw ELSE raw
                line == StripEOL(joined)
                rest == SubSeq(buf, i + 1, Len(buf))
                s1 == [s0 EXCEPT !.incomplete = <<>>, !.reader = rest]
            IN IF line = <<>>
               THEN s1
               ELSE [s1 EXCEPT !.offset = newPos,
                               !.lineChan = TrySend(s.lineChan, line),
                               !.emitted = IF Len(s.lineChan) < LineChanCap
                                           THEN Append(s.emitted, line)
                                           ELSE s.emitted,
                               !.dropped = IF Len(s.lineChan) < LineChanCap
                                           THEN s.dropped
                                           ELSE s.dropped \cup
                                                {[line |-> line,
                                                  at |-> Len(s.emitted),
                                                  end |-> newPos - Len(rest),
                                                  off |-> newPos]}]

\* a variant that keeps the incomplete-line buffer across a truncation
ReadNewLinesKeep(s, fs) ==
    IF s.file.ino = 0 THEN [s EXCEPT !.pc = "top"]
    ELSE IF ~s.file.open THEN [s EXCEPT !.pc = "top"]
    ELSE LET size == Len(fs[s.file.ino]) IN
         IF size < s.offset
         THEN [s EXCEPT !.offset = 0, !.file.pos = 0, !.reader = <<>>, !.pc = "top"]
         ELSE IF size = s.offset THEN [s EXCEPT !.pc = "top"]
         ELSE [s EXCEPT !.pc = "read"]

\* readNewLines up to its read loop (lines 199-229): pc is "read" when the
\* loop is entered, with t.mu held, and "top" when readNewLines returns.
ReadNewLinesOf(s, fs) ==
    IF s.file.ino = 0 THEN [s EXCEPT !.pc = "top"]
    ELSE IF ~s.file.open THEN [s EXCEPT !.pc = "top"]   \* Stat fails on a closed handle
    ELSE LET size == Len(fs[s.file.ino]) IN
         IF size < s.offset
         THEN [s EXCEPT !.offset = 0, !.file.pos = 0, !.reader = <<>>,
                        !.incomplete = <<>>, !.pc = "top"]
         ELSE IF size = s.offset THEN [s EXCEPT !.pc = "top"]
         ELSE [s EXCEPT !.pc = "read"]

\* the fields of the tailer take the values of r
ReadResult(r) ==
    /\ file' = r.file
    /\ incomplete' = r.incomplete
    /\ offset' = r.offset
    /\ reader' = r.reader
    /\ lineChan' = r.lineChan
    /\ emitted' = r.emitted
    /\ dropped' = r.dropped
    /\ tlPc' = r.pc

ReadNewLines == ReadResult(ReadNewLinesOf(ReadState, files))

\* reopenFile (lines 293-315)
ReopenFileOf(s, ino) ==
    IF ino = 0
    THEN \* os.Open fails: the old handle stays in t.file, closed
         [s EXCEPT !.file.open = FALSE]
    ELSE [s EXCEPT !.file = OpenFile(ino), !.offset = 0, !.reader = <<>>,
                   !.incomplete = <<>>]

ReopenFile ==
    LET r == ReopenFileOf(ReadState, pathIno) IN
    /\ file' = r.file
    /\ incomplete' = r.incomplete
    /\ offset' = r.offset
    /\ reader' = r.reader
    /\ UNCHANGED otherVars
    /\ UNCHANGED <<lineChan, emitted, dropped>>

Alive == panicked = "none"

EmittedLines == Range(emitted)

(***************************************************************************)
(* Log entries. The bytes of a line are abstract, so a table fixes what    *)
(* each line stands for: one of the entries below, or text that no parser  *)
(* accepts. Message keeps the raw line, as the Apache and Common parsers   *)
(* do.                                                                     *)
(***************************************************************************)
EntryTable ==
    << [Level |-> "info", StatusCode |-> 200, Path |-> "/a", IPAddress |-> "10.0.0.1",
        UserAgent |-> "curl", ResponseTime |-> 10, Message |-> <<>>],
       [Level |-> "warn", StatusCode |-> 404, Path |-> "/b", IPAddress |-> "10.0.0.1",
        UserAgent |-> "", ResponseTime |-> 0, Message |-> <<>>],
       [Level |-> "error", StatusCode |-> 0, Path |-> "", IPAddress |-> "",
        UserAgent |-> "", ResponseTime |-> 30, Message |-> <<>>],
       [Level |-> "error", StatusCode |-> 500, Path |-> "/a", IPAddress |-> "10.0.0.2",
        UserAgent |-> "curl", ResponseTime |-> 30, Message |-> <<>>],
       [Level |-> "info", StatusCode |-> 0, Path |-> "/b", IPAddress |-> "",
        UserAgent |-> "wget", ResponseTime |-> 0, Message |-> <<>>] >>

Entries == Range(EntryTable)

ParseError == [Level |-> "", StatusCode |-> -1, Path |-> "", IPAddress |-> "",
               UserAgent |-> "", ResponseTime |-> 0, Message |-> <<>>]

\* ls.parser.Parse(line) (line 60): the entry the line stands for, or ParseError
Parse(line) ==
    LET b == line[1] IN
    IF b % 4 = 1 THEN ParseError
    ELSE [EntryTable[(b % Len(EntryTable)) + 1] EXCEPT !.Message = line]

(***************************************************************************)
(* The parsers (src/internal/parser/parser.go). A JSONParser has no        *)
(* fields. An ApacheParser and a CommonLogParser hold one field, regex,    *)
(* which NewParser leaves nil and Parse fills in on its first call. Parse  *)
(* takes no lock, so the calls of several goroutines on one parser         *)
(* interleave at the reads and writes of that field.                       *)
(***************************************************************************)
Formats == {"json", "apache", "combined", "common", "text"}

ParserInstances == 1 .. MaxParsers
ParseCallers == 1 .. MaxParseCallers
ParseLines == {<<3>>, <<5>>}

\* NewParser (lines 20-31)
NewParser(format) ==
    CASE format = "json" -> [kind |-> "json"]
      [] format \in {"apache", "combined"} -> [kind |-> "apache", regex |-> "nil"]
      [] format = "common" -> [kind |-> "common", regex |-> "nil"]
      [] OTHER -> [kind |-> "json"]

\* no constructor call was recorded
NoCtor == [fn |-> "none", a |-> [s |-> 0, e |-> 0, m |-> <<>>],
           b |-> [s |-> 0, e |-> 0, m |-> <<>>]]

NoParseCall == [inst |-> 0, line |-> <<>>]

ParserFrame == UNCHANGED <<tailerVars, collectorVars, pipeVars, detVars, topVars, ctorVars>>

\* a goroutine calls Parse(line) on one of the parsers
PsCall(c) ==
    /\ psPc[c] = "idle"
    /\ nParses < MaxParseCalls
    /\ \E i \in ParserInstances, line \in ParseLines :
         /\ psArg' = [psArg EXCEPT ![c] = [inst |-> i, line |-> line]]
         /\ psPc' = [psPc EXCEPT ![c] =
                        IF parsers[i].kind = "json" THEN "json" ELSE "check"]
    /\ nParses' = nParses + 1
    /\ UNCHANGED <<parsers, psRes, nCompiles>>
    /\ ParserFrame

\* JSONParser.Parse (lines 36-42): json.Unmarshal into a new entry
PsJson(c) ==
    /\ psPc[c] = "json"
    /\ psRes' = [psRes EXCEPT ![c] = Parse(psArg[c].line)]
    /\ psPc' = [psPc EXCEPT ![c] = "idle"]
    /\ UNCHANGED <<parsers, psArg, nCompiles, nParses>>
    /\ ParserFrame

\* ApacheParser.Parse line 52, CommonLogParser.Parse line 99:
\* if p.regex == nil
PsCheck(c) ==
    /\ psPc[c] = "check"
    /\ psPc' = [psPc EXCEPT ![c] =
                   IF parsers[psArg[c].inst].regex = "nil" THEN "compile"
                   ELSE "match"]
    /\ UNCHANGED <<parsers, psArg, psRes, nCompiles, nParses>>
    /\ ParserFrame

\* what Parse stores in p.regex (lines 53-55, 100-102)
CompiledRegex(kind) == "compiled"

\* lines 53-55, 100-102: p.regex = regexp.MustCompile(...)
PsCompile(c) ==
    /\ psPc[c] = "compile"
    /\ nCompiles' = nCompiles + 1
    /\ parsers' = [parsers EXCEPT ![psArg[c].inst].regex =
                      CompiledRegex(parsers[psArg[c].inst].kind)]
    /\ psPc' = [psPc EXCEPT ![c] = "match"]
    /\ UNCHANGED <<psArg, psRes, nParses>>
    /\ ParserFrame

\* lines 80-87, 126-132: the level is determined by the status code
LevelOfStatus(statusCode) ==
    IF statusCode >= 500 THEN "error"
    ELSE IF statusCode >= 400 THEN "warn"
    ELSE "info"

\* lines 58-89, 105-134: the entry a parser with a regular expression builds
\* from the groups of the match. The expressions need an address, a path and
\* a status; the Apache expression has a group for the user agent, the Common
\* one has none; neither has one for the response time, which stays 0.
RegexParse(kind, line) ==
    LET e == Parse(line) IN
    IF e = ParseError \/ e.IPAddress = "" \/ e.Path = "" THEN ParseError
    ELSE [Level |-> LevelOfStatus(e.StatusCode),
          StatusCode |-> e.StatusCode,
          Path |-> e.Path,
          IPAddress |-> e.IPAddress,
          UserAgent |-> IF kind = "apache" THEN e.UserAgent ELSE "",
          ResponseTime |-> 0,
          Message |-> line]

\* lines 58-89, 105-134: p.regex.FindStringSubmatch(line) and the entry
\* built from the matches
PsMatch(c) ==
    /\ psPc[c] = "match"
    /\ psRes' = [psRes EXCEPT ![c] =
                    RegexParse(parsers[psArg[c].inst].kind, psArg[c].line)]
    /\ psPc' = [psPc EXCEPT ![c] = "idle"]
    /\ UNCHANGED <<parsers, psArg, nCompiles, nParses>>
    /\ ParserFrame

\* no goroutine is in Parse and nothing was compiled: the package has no
\* package-level regular expression
ParserFields ==
    /\ psPc = [c \in ParseCallers |-> "idle"]
    /\ psArg = [c \in ParseCallers |-> NoParseCall]
    /\ psRes = [c \in ParseCallers |-> ParseError]
    /\ nCompiles = 0
    /\ nParses = 0

(***************************************************************************)
(* Tailer.Start, called by LogStream.Start (lines 43-48, 93-135).          *)
(* outcome: which step of Start fails, "none" when all succeed.            *)
(***************************************************************************)
StartOutcomes == {"none", "seek", "watcher", "add"}

\* a variant that closes the file only when Seek fails
FileLeftOpen(outcome) == outcome # "seek"

\* the file.Close() of the failure branches: the file stays open only when
\* every step succeeded
FileOpenAfterStart(outcome) == outcome = "none"

\* a variant that leaves the file at its beginning
SeekStart(size) == 0

\* file.Seek(0, io.SeekEnd): the offset of the end of the file
SeekEnd(size) == size

LsStart ==
    /\ Alive /\ lsPc = "init"
    /\ IF pathIno = 0
       THEN \* os.Open fails
            /\ lsPc' = "done"
            /\ UNCHANGED <<tVars>>
       ELSE \E outcome \in StartOutcomes :
            LET size == Len(files[pathIno]) IN
            /\ file' = [ino |-> pathIno,
                        pos |-> IF outcome = "seek" THEN 0 ELSE SeekEnd(size),
                        open |-> FileOpenAfterStart(outcome)]
            /\ offset' = IF outcome = "seek" THEN 0 ELSE SeekEnd(size)
            /\ watcher' = IF outcome \in {"none", "add"} THEN "set" ELSE "nil"
            /\ watcherOpen' = (outcome = "none")
            /\ tlPc' = IF outcome = "none" THEN "top" ELSE "idle"
            /\ lsPc' = IF outcome = "none" THEN "loop" ELSE "done"
            /\ UNCHANGED <<incomplete, reader, lineChan, lineChanClosed, stopCh>>
    /\ UNCHANGED otherVars
    /\ UNCHANGED <<fsVars, lsHeld, output, ctlVars, histVars>>

(***************************************************************************)
(* tailLoop (lines 138-196). "top" is the head of the for loop, where the  *)
(* select evaluates t.watcher.Events and t.watcher.Errors; "blocked" is    *)
(* the select waiting on the channels it evaluated. The loop reads         *)
(* t.watcher without the lock Stop holds when it writes nil: the read      *)
(* returns nil, and the select panics, or it returns the pointer Stop has  *)
(* overwritten, and the select waits on the channels of the closed watcher.*)
(***************************************************************************)
TailEnter ==
    /\ Alive /\ tlPc = "top"
    /\ IF watcher = "nil"
       THEN \/ panicked' = "nil dereference" /\ tlPc' = tlPc
            \/ tlPc' = "blocked" /\ panicked' = panicked
       ELSE tlPc' = "blocked" /\ panicked' = panicked
    /\ UNCHANGED otherVars
    /\ UNCHANGED <<fsVars, file, offset, incomplete, reader, watcher, watcherOpen, lineChan,
                   lineChanClosed, stopCh, lsVars, cancelled, xPc, nStops, histVars>>

\* the deferred close(t.lineChan) (lines 139-142)
TailReturn ==
    /\ tlPc' = "done"
    /\ lineChanClosed' = TRUE
    /\ UNCHANGED otherVars
    /\ UNCHANGED <<fsVars, file, offset, incomplete, reader, watcher, watcherOpen, lineChan,
                   stopCh, lsVars, ctlVars, histVars>>

TailCtxDone == Alive /\ tlPc = "blocked" /\ cancelled /\ TailReturn

TailStopCh == Alive /\ tlPc = "blocked" /\ stopCh = "closed" /\ TailReturn

\* Events or Errors closed by watcher.Close() (lines 159-161, 186-188)
TailWatcherClosed == Alive /\ tlPc = "blocked" /\ ~watcherOpen /\ TailReturn

\* case event := <-t.watcher.Events (lines 158-183): the receive and the
\* switch on event.Op. The handler of a Write and of a Create of t.path
\* starts with t.mu.Lock() (lines 200, 294), so that the body of Stop comes
\* between the receive and the handler: "write" and "create" are the loop
\* holding the event it received, in front of the lock.
TailEvent ==
    /\ Alive /\ tlPc = "blocked" /\ watcherOpen /\ events # <<>>
    /\ LET e == Head(events) IN
       /\ events' = Tail(events)
       /\ tlPc' = CASE e.op = "Write" -> "write"
                     [] e.op \in {"Remove", "Rename"} -> "sleep"
                     [] e.op = "Create" -> IF e.name = "path" THEN "create" ELSE "top"
    /\ UNCHANGED otherVars
    /\ UNCHANGED <<files, pathIno, nAppends, nRot, nTrunc, budget, file, offset,
                   incomplete, reader, lineChan, emitted, dropped, watcher,
                   watcherOpen, lineChanClosed, stopCh, lsVars, ctlVars, appended>>

\* t.readNewLines() of a Write event (lines 165-167)
TailWrite ==
    /\ Alive /\ tlPc = "write"
    /\ ReadNewLines
    /\ UNCHANGED otherVars
    /\ UNCHANGED <<fsVars, watcher, watcherOpen, lineChanClosed, stopCh, lsVars,
                   ctlVars, appended>>

\* t.reopenFile() of a Create of t.path (lines 177-182)
TailCreate ==
    /\ Alive /\ tlPc = "create"
    /\ ReopenFile
    /\ tlPc' = "top"
    /\ UNCHANGED otherVars
    /\ UNCHANGED <<fsVars, watcher, watcherOpen, lineChanClosed, stopCh, lsVars,
                   ctlVars, appended>>

\* handleFileRotation after its 100 ms sleep (lines 282-290)
TailRotateWake ==
    /\ Alive /\ tlPc = "sleep"
    /\ ReopenFile
    /\ tlPc' = "top"
    /\ UNCHANGED otherVars
    /\ UNCHANGED <<fsVars, watcher, watcherOpen, lineChanClosed, stopCh, lsVars,
                   ctlVars, appended>>

\* case <-ticker.C (lines 191-193)
TailTick ==
    /\ Alive /\ tlPc = "blocked"
    /\ ReadNewLines
    /\ UNCHANGED otherVars
    /\ UNCHANGED <<fsVars, watcher, watcherOpen, lineChanClosed, stopCh, lsVars,
                   ctlVars, appended>>

\* readNewLines in its read loop (lines 232-278): one iteration. The lock
\* t.mu does not cover t.lineChan or the file's content, so that a receive
\* of LogStream.Start and a write to the file come between two iterations.
TailRead ==
    /\ Alive /\ tlPc = "read"
    /\ ReadResult(ReadLoop(ReadState, files))
    /\ UNCHANGED otherVars
    /\ UNCHANGED <<fsVars, watcher, watcherOpen, lineChanClosed, stopCh, lsVars,
                   ctlVars, appended>>

TailLoop ==
    \/ TailEnter \/ TailCtxDone \/ TailStopCh \/ TailWatcherClosed
    \/ TailEvent \/ TailWrite \/ TailCreate \/ TailRotateWake \/ TailTick
    \/ TailRead

(***************************************************************************)
(* Tailer.Stop (lines 318-345), in two steps: close(t.stopCh), then the    *)
(* part under t.mu.                                                        *)
(***************************************************************************)
\* t.mu is free: tailLoop is not inside the read loop of readNewLines, the
\* one place where a step of another goroutine finds the lock held
TailerMuFree == tlPc # "read"

StopClose ==
    IF stopCh = "closed"
    THEN panicked' = "close of closed channel" /\ stopCh' = stopCh
    ELSE stopCh' = "closed" /\ panicked' = panicked

StopBody ==
    /\ TailerMuFree
    /\ watcher' = "nil"
    /\ watcherOpen' = IF watcher = "set" THEN FALSE ELSE watcherOpen
    /\ file' = NilFile

(***************************************************************************)
(* LogStream.Start (lines 43-69).                                          *)
(***************************************************************************)
\* a variant that forwards whatever Parse returned
ForwardedAlways(entry) == TRUE

\* lines 61-66: the entry is sent to output unless Parse returned an error
Forwarded(entry) == entry # ParseError

LsRecv ==
    /\ Alive /\ lsPc = "loop" /\ lineChan # <<>>
    /\ lineChan' = Tail(lineChan)
    /\ LET entry == Parse(Head(lineChan)) IN
       IF ~Forwarded(entry)
       THEN UNCHANGED <<lsPc, lsHeld>>
       ELSE lsPc' = "send" /\ lsHeld' = entry
    /\ UNCHANGED otherVars
    /\ UNCHANGED <<fsVars, file, offset, incomplete, reader, watcher, watcherOpen,
                   lineChanClosed, stopCh, tlPc, output, ctlVars, histVars>>

LsSend ==
    /\ Alive /\ lsPc = "send" /\ Len(output) < ChanCap
    /\ output' = Append(output, lsHeld)
    /\ lsPc' = "loop"
    /\ lsHeld' = ParseError
    /\ UNCHANGED otherVars
    /\ UNCHANGED <<fsVars, tVars, ctlVars, histVars>>

LsChanClosed ==
    /\ Alive /\ lsPc = "loop" /\ lineChan = <<>> /\ lineChanClosed
    /\ lsPc' = "done"
    /\ UNCHANGED otherVars
    /\ UNCHANGED <<fsVars, tVars, lsHeld, output, ctlVars, histVars>>

LsCtxDone ==
    /\ Alive /\ lsPc = "loop" /\ cancelled
    /\ lsPc' = "stop1"
    /\ UNCHANGED otherVars
    /\ UNCHANGED <<fsVars, tVars, lsHeld, output, ctlVars, histVars>>

LsStopClose ==
    /\ Alive /\ lsPc = "stop1"
    /\ StopClose
    /\ lsPc' = "stop2"
    /\ UNCHANGED otherVars
    /\ UNCHANGED <<fsVars, file, offset, incomplete, reader, watcher, watcherOpen, lineChan,
                   lineChanClosed, tlPc, lsHeld, output, cancelled, xPc, nStops,
                   histVars>>

LsStopBody ==
    /\ Alive /\ lsPc = "stop2"
    /\ StopBody
    /\ lsPc' = "done"
    /\ UNCHANGED otherVars
    /\ UNCHANGED <<fsVars, offset, incomplete, reader, lineChan, lineChanClosed, stopCh, tlPc,
                   lsHeld, output, ctlVars, histVars>>

LogStreamStart ==
    \/ LsStart \/ LsRecv \/ LsSend \/ LsChanClosed \/ LsCtxDone
    \/ LsStopClose \/ LsStopBody

(***************************************************************************)
(* A client of the FileTailer interface calling Stop (lines 27-30).        *)
(***************************************************************************)
XStopBegin ==
    /\ Alive /\ xPc = "idle" /\ nStops < MaxExtStops /\ lsPc # "init"
    /\ xPc' = "stop1"
    /\ nStops' = nStops + 1
    /\ UNCHANGED otherVars
    /\ UNCHANGED <<fsVars, tVars, lsVars, cancelled, panicked, histVars>>

XStopClose ==
    /\ Alive /\ xPc = "stop1"
    /\ StopClose
    /\ xPc' = "stop2"
    /\ UNCHANGED otherVars
    /\ UNCHANGED <<fsVars, file, offset, incomplete, reader, watcher, watcherOpen, lineChan,
                   lineChanClosed, tlPc, lsVars, cancelled, nStops, histVars>>

XStopBody ==
    /\ Alive /\ xPc = "stop2"
    /\ StopBody
    /\ xPc' = "idle"
    /\ UNCHANGED otherVars
    /\ UNCHANGED <<fsVars, offset, incomplete, reader, lineChan, lineChanClosed, stopCh, tlPc,
                   lsVars, cancelled, panicked, nStops, histVars>>

ClientStop == XStopBegin \/ XStopClose \/ XStopBody

(***************************************************************************)
(* Environment: the context, the reader of LogStream's output, and the     *)
(* writer and rotator of the log file. The watcher reports an operation    *)
(* on the path with an event, or drops it.                                 *)
(***************************************************************************)
Cancel ==
    /\ Alive /\ ~cancelled
    /\ cancelled' = TRUE
    /\ UNCHANGED otherVars
    /\ UNCHANGED <<fsVars, tVars, lsVars, panicked, xPc, nStops, histVars>>

OutputRecv ==
    /\ Alive /\ output # <<>>
    /\ output' = Tail(output)
    /\ UNCHANGED otherVars
    /\ UNCHANGED <<fsVars, tVars, lsPc, lsHeld, ctlVars, histVars>>

Tailing == Alive /\ tlPc \in {"top", "blocked", "write", "create", "read", "sleep"}

Notify(op, name, report) ==
    IF report /\ watcherOpen /\ Len(events) < MaxEvents
    THEN Append(events, [op |-> op, name |-> name])
    ELSE events

ChunkKinds == {"line", "frag", "nl", "crnl"}

Chunk(kind, b) ==
    CASE kind = "line" -> <<b, NL>>
      [] kind = "frag" -> <<b>>
      [] kind = "nl" -> <<NL>>
      [] kind = "crnl" -> <<CR, NL>>

\* the bytes after the last '\n' of content
RECURSIVE LastPartial(_)
LastPartial(c) ==
    IF c = <<>> \/ c[Len(c)] = NL THEN <<>>
    ELSE Append(LastPartial(SubSeq(c, 1, Len(c) - 1)), c[Len(c)])

FsAppend ==
    /\ Tailing /\ pathIno # 0 /\ nAppends < budget.appends
    /\ \E kind \in budget.kinds, report \in BOOLEAN :
         LET old == files[pathIno]
             chunk == Chunk(kind, PreByte + nAppends + 1)
             line == StripEOL(LastPartial(old) \o chunk)
         IN /\ files' = [files EXCEPT ![pathIno] = old \o chunk]
            /\ events' = Notify("Write", "path", report)
            /\ appended' = IF chunk[Len(chunk)] = NL /\ line # <<>>
                           THEN appended \cup {line} ELSE appended
    /\ nAppends' = nAppends + 1
    /\ UNCHANGED otherVars
    /\ UNCHANGED <<pathIno, nRot, nTrunc, budget, tVars, lsVars, ctlVars, emitted,
                   dropped>>

\* Truncation to length 0. A line that it erases before the tailer has
\* delivered it is no longer counted as appended.
FsTruncate ==
    /\ Tailing /\ pathIno # 0 /\ nTrunc < budget.truncs /\ files[pathIno] # <<>>
    /\ \E report \in BOOLEAN :
         /\ files' = [files EXCEPT ![pathIno] = <<>>]
         /\ events' = Notify("Write", "path", report)
    /\ nTrunc' = nTrunc + 1
    /\ appended' = {l \in appended :
                       l \in EmittedLines \/ Range(l) \cap Range(files[pathIno]) = {}}
    /\ UNCHANGED otherVars
    /\ UNCHANGED <<pathIno, nAppends, nRot, budget, tVars, lsVars, ctlVars, emitted,
                   dropped>>

\* rename or remove: the path no longer names the file, handles stay valid
FsRotate ==
    /\ Tailing /\ pathIno # 0 /\ nRot < budget.rotations
    /\ \E op \in {"Rename", "Remove"}, report \in BOOLEAN :
         events' = Notify(op, "path", report)
    /\ pathIno' = 0
    /\ nRot' = nRot + 1
    /\ UNCHANGED otherVars
    /\ UNCHANGED <<files, nAppends, nTrunc, budget, tVars, lsVars, ctlVars, histVars>>

\* the path is created again, as a new empty file
FsCreate ==
    /\ Tailing /\ pathIno = 0
    /\ \E report \in BOOLEAN : events' = Notify("Create", "path", report)
    /\ files' = Append(files, <<>>)
    /\ pathIno' = Len(files) + 1
    /\ UNCHANGED otherVars
    /\ UNCHANGED <<nAppends, nRot, nTrunc, budget, tVars, lsVars, ctlVars, histVars>>

\* a Create event that names another file
FsCreateOther ==
    /\ Tailing /\ watcherOpen /\ events = <<>> /\ nRot < budget.rotations
    /\ events' = Notify("Create", "other", TRUE)
    /\ UNCHANGED otherVars
    /\ UNCHANGED <<files, pathIno, nAppends, nRot, nTrunc, budget, tVars, lsVars,
                   ctlVars, histVars>>

FileSystem == FsAppend \/ FsTruncate \/ FsRotate \/ FsCreate \/ FsCreateOther

(***************************************************************************)
(* float64 arithmetic. A mantissa needs more bits than an integer of the   *)
(* model checker has, so the natural numbers the arithmetic works with are *)
(* little-endian sequences of limbs below Base, the most significant limb  *)
(* not 0; <<>> is 0.                                                       *)
(*                                                                         *)
(* The operations are applied by name: Call(<<fn, a, b>>), defined after   *)
(* the specifications, is the operation fn applied to the arguments a and  *)
(* b, and RAdd(a, b) is Call(<<"FAdd", a, b>>). An operation that uses     *)
(* another one refers to it through Call, so the syntax tree the model     *)
(* checker builds of an expression holds one reference to each operation   *)
(* and not a copy of its definition, and the arguments have their values   *)
(* before the operation is entered.                                        *)
(***************************************************************************)
RECURSIVE Call(_)

LimbBits == 15

Base == 2 ^ LimbBits

Limb(x, i) == IF i <= Len(x) THEN x[i] ELSE 0

RECURSIVE BTrim(_)
BTrim(x) ==
    IF x # <<>> /\ x[Len(x)] = 0 THEN BTrim(SubSeq(x, 1, Len(x) - 1)) ELSE x

RECURSIVE BFromInt(_)
BFromInt(n) == IF n = 0 THEN <<>> ELSE <<n % Base>> \o BFromInt(n \div Base)

RECURSIVE BAddFrom(_, _, _, _)
BAddFrom(a, b, i, c) ==
    IF i > Len(a) /\ i > Len(b) THEN (IF c = 0 THEN <<>> ELSE <<c>>)
    ELSE LET t == Limb(a, i) + Limb(b, i) + c
         IN <<t % Base>> \o BAddFrom(a, b, i + 1, t \div Base)

BAdd(a, b) == BAddFrom(a, b, 1, 0)

\* a - b for a >= b
RECURSIVE BSubFrom(_, _, _, _)
BSubFrom(a, b, i, c) ==
    IF i > Len(a) THEN <<>>
    ELSE LET t == a[i] - Limb(b, i) - c
         IN IF t < 0 THEN <<t + Base>> \o BSubFrom(a, b, i + 1, 1)
            ELSE <<t>> \o BSubFrom(a, b, i + 1, 0)

BSub(a, b) == BTrim(BSubFrom(a, b, 1, 0))

\* -1, 0 or 1 as a is below, equal to or above b
RECURSIVE BCmpFrom(_, _, _)
BCmpFrom(a, b, i) ==
    IF i = 0 THEN 0
    ELSE IF a[i] < b[i] THEN 0 - 1
    ELSE IF a[i] > b[i] THEN 1
    ELSE BCmpFrom(a, b, i - 1)

BCmp(a, b) ==
    IF Len(a) < Len(b) THEN 0 - 1
    ELSE IF Len(a) > Len(b) THEN 1
    ELSE BCmpFrom(a, b, Len(a))

\* a * k + c for 0 <= k <= Base
RECURSIVE BMulSmallFrom(_, _, _, _)
BMulSmallFrom(a, k, i, c) ==
    IF i > Len(a) THEN (IF c = 0 THEN <<>> ELSE <<c>>)
    ELSE LET t == a[i] * k + c
         IN <<t % Base>> \o BMulSmallFrom(a, k, i + 1, t \div Base)

BMulSmall(a, k) == IF k = 0 THEN <<>> ELSE BMulSmallFrom(a, k, 1, 0)

RECURSIVE BMul(_, _)
BMul(a, b) ==
    IF a = <<>> \/ b = <<>> THEN <<>>
    ELSE LET r == BMul(a, Tail(b))
         IN BAdd(BMulSmall(a, Head(b)), IF r = <<>> THEN <<>> ELSE <<0>> \o r)

\* quotient and remainder of a by d, for 0 < d <= Base
RECURSIVE BDivSmallRaw(_, _)
BDivSmallRaw(a, d) ==
    IF a = <<>> THEN [q |-> <<>>, r |-> 0]
    ELSE LET up == BDivSmallRaw(Tail(a), d)
             t == up.r * Base + Head(a)
         IN [q |-> <<t \div d>> \o up.q, r |-> t % d]

BDivSmall(a, d) ==
    LET x == BDivSmallRaw(a, d) IN [q |-> BTrim(x.q), r |-> x.r]

Zeros(n) == [i \in 1..n |-> 0]

\* a * 2^n
BShl(a, n) ==
    IF a = <<>> \/ n = 0 THEN a
    ELSE IF n % LimbBits = 0 THEN Zeros(n \div LimbBits) \o a
    ELSE Zeros(n \div LimbBits) \o BMulSmall(a, 2 ^ (n % LimbBits))

\* a \div 2^n
BShr(a, n) ==
    LET k == n \div LimbBits
    IN IF k >= Len(a) THEN <<>>
       ELSE IF n % LimbBits = 0 THEN SubSeq(a, k + 1, Len(a))
       ELSE BDivSmall(SubSeq(a, k + 1, Len(a)), 2 ^ (n % LimbBits)).q

RECURSIVE IntBitLen(_)
IntBitLen(n) == IF n = 0 THEN 0 ELSE 1 + IntBitLen(n \div 2)

BBitLen(a) ==
    IF a = <<>> THEN 0 ELSE LimbBits * (Len(a) - 1) + IntBitLen(a[Len(a)])

\* bit i of a, bit 0 the lowest
BBit(a, i) == (Limb(a, i \div LimbBits + 1) \div 2 ^ (i % LimbBits)) % 2

\* whether the n lowest bits of a are all 0
BLowZero(a, n) ==
    /\ \A i \in 1..(n \div LimbBits) : Limb(a, i) = 0
    /\ Limb(a, n \div LimbBits + 1) % 2 ^ (n % LimbBits) = 0

RECURSIVE IntTrailingZeros(_)
IntTrailingZeros(n) == IF n % 2 = 1 THEN 0 ELSE 1 + IntTrailingZeros(n \div 2)

\* the number of 0 bits below the lowest 1 bit of a # 0
RECURSIVE BTrailingZeros(_)
BTrailingZeros(a) ==
    IF Head(a) = 0 THEN LimbBits + BTrailingZeros(Tail(a))
    ELSE IntTrailingZeros(Head(a))

\* the largest q with q * d <= r, from an estimate q that is not below it
RECURSIVE DivFit(_, _, _, _)
DivFit(q, p, r, d) ==
    IF BCmp(p, r) > 0 THEN DivFit(q - 1, BSub(p, d), r, d) ELSE [q |-> q, p |-> p]

\* the next limb of a quotient by d, whose top limb is Base / 2 or more, and
\* the remainder left, where r1 < d * Base is what is left of the dividend
\* so far: the limb is estimated from the two top limbs of r1
BDivDigit(r1, d) ==
    IF BCmp(r1, d) < 0 THEN [q |-> 0, r |-> r1]
    ELSE LET n == Len(d)
             est == (Limb(r1, n + 1) * Base + r1[n]) \div d[n]
             x == DivFit(IF est >= Base THEN Base - 1 ELSE est,
                         BMulSmall(d, IF est >= Base THEN Base - 1 ELSE est), r1, d)
         IN [q |-> x.q, r |-> BSub(r1, x.p)]

DivDigit(r1, d) == Call(<<"BDivDigit", r1, d>>)

\* the long division has produced the quotient limbs up.q from the limbs of
\* the dividend above l, with up.r left: it takes the limb l
DivStep(up, l, d) ==
    IF up.r = <<>> /\ l = 0 THEN [q |-> <<0>> \o up.q, r |-> <<>>]
    ELSE LET x == DivDigit(BTrim(<<l>> \o up.r), d)
         IN [q |-> <<x.q>> \o up.q, r |-> x.r]

RECURSIVE BDivLongRaw(_, _)
BDivLongRaw(a, d) ==
    IF Len(a) < Len(d) THEN [q |-> <<>>, r |-> BTrim(a)]
    ELSE DivStep(BDivLongRaw(Tail(a), d), Head(a), d)

\* quotient of a by d > 0, and whether it is exact
BLongDiv(a, d) ==
    IF Len(d) = 1
    THEN LET x == BDivSmall(a, d[1]) IN [q |-> x.q, exact |-> x.r = 0]
    ELSE LET sh == LimbBits - IntBitLen(d[Len(d)])
             x == BDivLongRaw(BShl(a, sh), BShl(d, sh))
         IN [q |-> BTrim(x.q), exact |-> x.r = <<>>]

BDivMod(a, d) == Call(<<"BLongDiv", a, d>>)

\* the integer square root of n < 2^30, by Newton's iteration from an
\* estimate r that is not below it
RECURSIVE IntSqrtFrom(_, _)
IntSqrtFrom(n, r) ==
    IF (r + n \div r) \div 2 >= r THEN r ELSE IntSqrtFrom(n, (r + n \div r) \div 2)

\* Newton's iteration from an estimate r that is not below the root
RECURSIVE SqrtFrom(_, _)
SqrtFrom(a, r) ==
    IF r = <<>> THEN r
    ELSE LET r1 == BShr(BAdd(r, BDivMod(a, r).q), 1)
         IN IF BCmp(r1, r) >= 0 THEN r ELSE SqrtFrom(a, r1)

\* the integer square root of a > 0, and whether it is exact: the first
\* estimate is taken from the 29 or 30 top bits of a
BNewtonSqrt(a) ==
    LET len == BBitLen(a)
        cut == IF len <= 30 THEN 0 ELSE len - 30 + (len % 2)
        top == BShr(a, cut)
        r0 == IntSqrtFrom(Limb(top, 1) + Base * Limb(top, 2), Base) + 1
        root == Call(<<"SqrtFrom", a, BShl(BFromInt(r0), cut \div 2)>>)
    IN [root |-> root, exact |-> BMul(root, root) = a]

BSqrt(a) == Call(<<"BNewtonSqrt", a>>)

(***************************************************************************)
(* A float64 is [s, e, m]: (-1)^s * m * 2^e with m odd and below 2^53, or  *)
(* 0. Every operation rounds its exact result to the nearest value of 53   *)
(* bits, ties to even, as the processor does; a product and the sum it is  *)
(* added to are rounded one after the other (the amd64 build fuses none).  *)
(* The program's values stay far from the ends of the exponent range, and  *)
(* nothing it computes tells -0 from 0: infinities, NaN, subnormal numbers *)
(* and the sign of 0 are left out.                                         *)
(***************************************************************************)
MantissaBits == 53

FZero == [s |-> 0, e |-> 0, m |-> <<>>]

IsZero(a) == a.m = <<>>

\* (-1)^s * x * 2^e for x of at most 53 bits
FCanon(s, x, e) ==
    IF x = <<>> THEN FZero
    ELSE IF x[1] % 2 = 1 THEN [s |-> s, e |-> e, m |-> x]
    ELSE LET t == BTrailingZeros(x) IN [s |-> s, e |-> e + t, m |-> BShr(x, t)]

\* the float64 nearest to (-1)^s * x * 2^e, where sticky says that the exact
\* value is a little above x * 2^e (x then has 55 bits or more)
FRoundEven(s, x, e, sticky) ==
    LET len == BBitLen(x)
        r == len - MantissaBits
    IN IF r <= 0 THEN FCanon(s, x, e)
       ELSE LET kept == BShr(x, r)
                half == BBit(x, r - 1) = 1
                rest == sticky \/ ~BLowZero(x, r - 1)
                up == half /\ (rest \/ Limb(kept, 1) % 2 = 1)
            IN FCanon(s, IF up THEN BAdd(kept, <<1>>) ELSE kept, e + r)

FRound(s, x, e, sticky) == Call(<<"FRoundEven", s, x, e, sticky>>)

Abs(n) == IF n < 0 THEN 0 - n ELSE n

\* float64(n)
FInt(n) == FCanon(IF n < 0 THEN 1 ELSE 0, BFromInt(Abs(n)), 0)

RInt(n) == Call(<<"FInt", n>>)

RNeg(a) == IF IsZero(a) THEN a ELSE [a EXCEPT !.s = 1 - a.s]

\* math.Abs
RAbs(a) == [a EXCEPT !.s = 0]

\* -1, 0 or 1 as |a| is below, equal to or above |b|
FCmpAbs(a, b) ==
    IF IsZero(a) THEN (IF IsZero(b) THEN 0 ELSE 0 - 1)
    ELSE IF IsZero(b) THEN 1
    ELSE LET ta == BBitLen(a.m) + a.e
             tb == BBitLen(b.m) + b.e
         IN IF ta < tb THEN 0 - 1
            ELSE IF ta > tb THEN 1
            ELSE LET e == Min(a.e, b.e)
                 IN BCmp(BShl(a.m, a.e - e), BShl(b.m, b.e - e))

\* a < b
FLess(a, b) ==
    IF a.s # b.s THEN a.s = 1
    ELSE IF a.s = 0 THEN FCmpAbs(a, b) < 0
    ELSE FCmpAbs(a, b) > 0

RLess(a, b) == Call(<<"FLess", a, b>>)

\* a + b
FAdd(a, b) ==
    IF IsZero(a) THEN b
    ELSE IF IsZero(b) THEN a
    ELSE LET e == Min(a.e, b.e)
             xa == BShl(a.m, a.e - e)
             xb == BShl(b.m, b.e - e)
             c == BCmp(xa, xb)
         IN IF a.s = b.s THEN FRound(a.s, BAdd(xa, xb), e, FALSE)
            ELSE IF c = 0 THEN FZero
            ELSE IF c > 0 THEN FRound(a.s, BSub(xa, xb), e, FALSE)
            ELSE FRound(b.s, BSub(xb, xa), e, FALSE)

RAdd(a, b) == Call(<<"FAdd", a, b>>)

\* a - b
RSub(a, b) == RAdd(a, RNeg(b))

\* a * b
FMul(a, b) ==
    IF IsZero(a) \/ IsZero(b) THEN FZero
    ELSE FRound((a.s + b.s) % 2, BMul(a.m, b.m), a.e + b.e, FALSE)

RMul(a, b) == Call(<<"FMul", a, b>>)

\* a / b for b # 0
FDiv(a, b) ==
    IF IsZero(a) THEN FZero
    ELSE LET k == MantissaBits + 3 + BBitLen(b.m) - BBitLen(a.m)
             x == BDivMod(BShl(a.m, k), b.m)
         IN FRound((a.s + b.s) % 2, x.q, a.e - b.e - k, ~x.exact)

RDiv(a, b) == Call(<<"FDiv", a, b>>)

\* math.Sqrt(a) for a >= 0
FSqrt(a) ==
    IF IsZero(a) THEN FZero
    ELSE LET k0 == 2 * (MantissaBits + 2) - BBitLen(a.m)
             k == k0 + ((a.e - k0) % 2)
             x == BSqrt(BShl(a.m, k))
         IN FRound(0, x.root, (a.e - k) \div 2, ~x.exact)

RSqrt(a) == Call(<<"FSqrt", a>>)

\* math.Max
RMax(a, b) == IF RLess(a, b) THEN b ELSE a

\* the float64 nearest to n / d for d > 0: the value of the decimal literal
RNorm(n, d) == RDiv(RInt(n), RInt(d))

\* the integer a natural number below 2^30 is
BToInt(x) == Limb(x, 1) + Base * Limb(x, 2)

\* the largest integer not above a, for 0 <= a < 2^30
RFloor(a) ==
    IF IsZero(a) THEN 0
    ELSE IF a.e >= 0 THEN BToInt(BShl(a.m, a.e))
    ELSE BToInt(BShr(a.m, 0 - a.e))

\* sum := 0.0; for _, rt := range window.responseTimes { sum += rt }
RECURSIVE SumSeq(_)
SumSeq(q) ==
    IF q = <<>> THEN RInt(0)
    ELSE RAdd(SumSeq(SubSeq(q, 1, Len(q) - 1)), RInt(q[Len(q)]))


(***************************************************************************)
(* MetricsCollector. A Go map or slice is a reference: the collector state *)
(* holds the maps and the slices' arrays in a heap, and a window or a      *)
(* Metrics value holds their addresses (0 is nil).                         *)
(***************************************************************************)
\* m[k]++ on a Go map
Inc(m, k) == IF k \in DOMAIN m THEN [m EXCEPT ![k] = @ + 1] ELSE (k :> 1) @@ m

\* m[k] = v on a Go map
Put(m, k, v) == [x \in (DOMAIN m) \cup {k} |-> IF x = k THEN v ELSE m[x]]

\* newMetricsWindow, installed as c.currentWindow at time t
NewMetricsWindowOf(c, t) ==
    [c EXCEPT !.maps = Append(c.maps, <<>>),
              !.currentWindow =
                  [startTime |-> t, totalRequests |-> 0, errorCount |-> 0,
                   responseTimes |-> <<>>, statusCodes |-> Len(c.maps) + 1,
                   paths |-> <<>>, ips |-> <<>>, userAgents |-> <<>>]]

\* mc.maxHistoricalSize as NewMetricsCollector sets it
DefaultMaxHistoricalSize == 100

\* NewMetricsCollector
NewMetricsCollector(t) ==
    NewMetricsWindowOf([currentWindow |-> <<>>, historicalMetrics |-> <<>>,
                        maxHistoricalSize |-> DefaultMaxHistoricalSize,
                        maps |-> <<>>, slices |-> <<>>], t)

\* a variant that counts only server errors
IsServerErrorEntry(e) == e.Level = "error" \/ e.StatusCode >= 500

\* the test of AddLogEntry for an error entry
IsErrorEntry(e) == e.Level = "error" \/ e.StatusCode >= 400

\* AddLogEntry, the counters
AddCountsOf(c, e) ==
    [c EXCEPT !.currentWindow.totalRequests = @ + 1,
              !.currentWindow.errorCount = IF IsErrorEntry(e) THEN @ + 1 ELSE @]

\* AddLogEntry, the maps and the response times
AddMapsOf(c, e) ==
    LET w == c.currentWindow IN
    [c EXCEPT !.maps[w.statusCodes] = IF e.StatusCode > 0 THEN Inc(@, e.StatusCode) ELSE @,
              !.currentWindow.paths = IF e.Path # "" THEN Inc(@, e.Path) ELSE @,
              !.currentWindow.ips = IF e.IPAddress # "" THEN Inc(@, e.IPAddress) ELSE @,
              !.currentWindow.userAgents = IF e.UserAgent # "" THEN Inc(@, e.UserAgent) ELSE @,
              !.currentWindow.responseTimes =
                  IF e.ResponseTime > 0 THEN Append(@, e.ResponseTime) ELSE @]

AddLogEntryOf(c, e) == AddMapsOf(AddCountsOf(c, e), e)

\* the limit computeMetrics passes to getTopPaths, getTopIPs, getTopUserAgents
TopLimit == 10

\* the orders a range over the map can visit its keys in
MapOrders(m) ==
    LET keys == DOMAIN m
        n == Cardinality(keys)
    IN { g \in [1..n -> keys] : \A i, j \in 1..n : i # j => g[i] # g[j] }

\* the kv slice the range loop appends to, for one iteration order
CollectKv(m, order) == [i \in 1..Len(order) |-> [Key |-> order[i], Value |-> m[order[i]]]]

\* the inner loop of the insertion sort: the element at j moves towards the
\* front, swapped with the one before it, while less(j, j-1), that is while
\* its Value is greater
RECURSIVE SiftKv(_, _)
SiftKv(data, j) ==
    IF j > 1 /\ data[j].Value > data[j - 1].Value
    THEN SiftKv([data EXCEPT ![j] = data[j - 1], ![j - 1] = data[j]], j - 1)
    ELSE data

\* sort.Slice with less(i, j) = sorted[i].Value > sorted[j].Value, from index i
\* on: on a slice of 12 elements or fewer (MaxTopKeys here) the library runs
\* an insertion sort, which starts at the second element
RECURSIVE SortSliceFrom(_, _)
SortSliceFrom(data, i) ==
    IF i > Len(data) THEN data ELSE SortSliceFrom(SiftKv(data, i), i + 1)

\* the first resultSize elements as {Key, Count} entries
TopResult(sorted, limit) ==
    LET resultSize == IF Len(sorted) < limit THEN Len(sorted) ELSE limit
    IN [i \in 1..resultSize |-> [Key |-> sorted[i].Key, Count |-> sorted[i].Value]]

\* a variant that leaves the sort.Slice call out: the first entries in the
\* map's iteration order
TopNUnsorted(m, limit) ==
    IF DOMAIN m = {} THEN {<<>>}
    ELSE { TopResult(CollectKv(m, order), limit) : order \in MapOrders(m) }

\* getTopPaths, getTopIPs, getTopUserAgents: nil (<<>>) for an empty map;
\* otherwise the pairs are collected in the map's iteration order, sorted by
\* sort.Slice and cut to the limit. The set holds the result of every
\* iteration order.
TopN(m, limit) ==
    IF DOMAIN m = {} THEN {<<>>}
    ELSE { TopResult(SortSliceFrom(CollectKv(m, order), 2), limit) :
             order \in MapOrders(m) }

\* The keys and the maps the three functions are called with: key i stands
\* for the i-th distinct path, address or user agent.
TopKeys == 1 .. MaxTopKeys

TopMaps == UNION { [K -> 1 .. MaxTopCount] : K \in SUBSET TopKeys }

\* the limit of the spec's example, and the one computeMetrics passes
TopLimits == {ExampleLimit, TopLimit}

NoTop == [fn |-> "none", result |-> <<>>]

TopFrame ==
    UNCHANGED <<tailerVars, collectorVars, pipeVars, detVars, parserVars, topIn,
                topLimit, ctorVars>>

\* getTopPaths(paths, limit)
GetTopPaths ==
    /\ topOut = NoTop
    /\ \E r \in TopN(topIn, topLimit) : topOut' = [fn |-> "paths", result |-> r]
    /\ TopFrame

\* getTopIPs(ips, limit)
GetTopIPs ==
    /\ topOut = NoTop
    /\ \E r \in TopN(topIn, topLimit) : topOut' = [fn |-> "ips", result |-> r]
    /\ TopFrame

\* getTopUserAgents(userAgents, limit)
GetTopUserAgents ==
    /\ topOut = NoTop
    /\ \E r \in TopN(topIn, topLimit) :
         topOut' = [fn |-> "user_agents", result |-> r]
    /\ TopFrame

\* none of the three functions was called
TopFields ==
    /\ topIn = <<>>
    /\ topLimit = TopLimit
    /\ topOut = NoTop

\* a result slice put in the heap: [slices, addr]
AllocSlice(sl, v) ==
    IF v = <<>> THEN [slices |-> sl, addr |-> 0]
    ELSE [slices |-> Append(sl, v), addr |-> Len(sl) + 1]

\* time.Duration.Seconds of a duration in units of the model's clock
Seconds(d) ==
    RAdd(RInt(d \div UnitsPerSec), RDiv(RInt(d % UnitsPerSec), RInt(UnitsPerSec)))

\* computeMetrics at time t, with the top-N results tp, ti, tu: [c, metrics]
ComputeMetricsOf(c, t, tp, ti, tu) ==
    LET w == c.currentWindow
        elapsed == t - w.startTime
        duration == IF elapsed = 0 THEN RInt(1) ELSE Seconds(elapsed)
        ap == AllocSlice(c.slices, tp)
        ai == AllocSlice(ap.slices, ti)
        au == AllocSlice(ai.slices, tu)
    IN [c |-> [c EXCEPT !.slices = au.slices],
        metrics |->
          [Timestamp |-> t,
           RequestsPerSec |-> RDiv(RInt(w.totalRequests), duration),
           ErrorRate |-> IF w.totalRequests > 0
                         THEN RDiv(RInt(w.errorCount), RInt(w.totalRequests))
                         ELSE RInt(0),
           AvgResponseTime |-> IF Len(w.responseTimes) > 0
                               THEN RDiv(SumSeq(w.responseTimes),
                                         RInt(Len(w.responseTimes)))
                               ELSE RInt(0),
           StatusCodes |-> w.statusCodes,
           TopPaths |-> ap.addr, TopIPs |-> ai.addr, TopUserAgents |-> au.addr]]

\* a variant that evicts the newest snapshot
ArchiveDropNewest(c, m) ==
    LET h == Append(c.historicalMetrics, m) IN
    [c EXCEPT !.historicalMetrics =
                  IF Len(h) > c.maxHistoricalSize THEN SubSeq(h, 1, Len(h) - 1) ELSE h]

\* GetCurrentMetrics, the append to the history and the eviction
ArchiveOf(c, m) ==
    LET h == Append(c.historicalMetrics, m) IN
    [c EXCEPT !.historicalMetrics = IF Len(h) > c.maxHistoricalSize THEN Tail(h) ELSE h]

\* GetHistoricalMetrics: a new array with the Metrics structs copied into it
GetHistoricalMetricsOf(c) == [i \in 1..Len(c.historicalMetrics) |-> c.historicalMetrics[i]]

\* the zero Metrics value
ZeroMetrics ==
    [Timestamp |-> 0, RequestsPerSec |-> FZero, ErrorRate |-> FZero,
     AvgResponseTime |-> FZero, StatusCodes |-> 0, TopPaths |-> 0, TopIPs |-> 0,
     TopUserAgents |-> 0]

\* a Metrics value with its map and slices read through the heap
Deep(c, m) ==
    [m EXCEPT !.StatusCodes = IF @ = 0 THEN <<>> ELSE c.maps[@],
              !.TopPaths = IF @ = 0 THEN <<>> ELSE c.slices[@],
              !.TopIPs = IF @ = 0 THEN <<>> ELSE c.slices[@],
              !.TopUserAgents = IF @ = 0 THEN <<>> ELSE c.slices[@]]

DeepSeq(c, h) == [i \in 1..Len(h) |-> Deep(c, h[i])]

(***************************************************************************)
(* mc.mu, a sync.RWMutex.                                                  *)
(***************************************************************************)
\* a variant without mutual exclusion
LockAlwaysFree(m) == TRUE

\* mu.Lock() can return
CanLock(m) == m.w = 0 /\ m.r = {}

\* mu.RLock() can return
CanRLock(m) == m.w = 0

(***************************************************************************)
(* Callers of the collector: each runs one method at a time, and methods   *)
(* of different callers interleave statement by statement.                 *)
(***************************************************************************)
Callers == {1, 2}

MaxRolls == MaxHistoricalSize + 1

CollectorFrame == UNCHANGED <<tailerVars, pipeVars, detVars, parserVars, topVars,
                   ctorVars>>

\* AddLogEntry: mc.mu.Lock()
AddLock(p) ==
    /\ cpc[p] = "idle" /\ nAdds < MaxAdds /\ CanLock(mu)
    /\ \E e \in Entries : arg' = [arg EXCEPT ![p] = e]
    /\ mu' = [mu EXCEPT !.w = p]
    /\ cpc' = [cpc EXCEPT ![p] = "add_counts"]
    /\ nAdds' = nAdds + 1
    /\ UNCHANGED <<mc, now, res, heldSnap, heldHist, nRolls, nMut, counted, sources,
                   frozen>>
    /\ CollectorFrame

AddCounts(p) ==
    /\ cpc[p] = "add_counts"
    /\ mc' = AddCountsOf(mc, arg[p])
    /\ counted' = [total |-> counted.total + 1,
                   errors |-> counted.errors +
                       IF arg[p].Level = "error" \/ arg[p].StatusCode >= 400
                       THEN 1 ELSE 0]
    /\ cpc' = [cpc EXCEPT ![p] = "add_maps"]
    /\ UNCHANGED <<mu, now, arg, res, heldSnap, heldHist, nAdds, nRolls, nMut, sources,
                   frozen>>
    /\ CollectorFrame

\* the rest of AddLogEntry and the deferred Unlock
AddMaps(p) ==
    /\ cpc[p] = "add_maps"
    /\ mc' = AddMapsOf(mc, arg[p])
    /\ mu' = [mu EXCEPT !.w = 0]
    /\ cpc' = [cpc EXCEPT ![p] = "idle"]
    /\ arg' = [arg EXCEPT ![p] = ParseError]
    /\ UNCHANGED <<now, res, heldSnap, heldHist, nAdds, nRolls, nMut, counted, sources,
                   frozen>>
    /\ CollectorFrame

\* GetCurrentMetrics: mc.mu.Lock()
CurLock(p) ==
    /\ cpc[p] = "idle" /\ nRolls < MaxRolls /\ CanLock(mu)
    /\ mu' = [mu EXCEPT !.w = p]
    /\ cpc' = [cpc EXCEPT ![p] = "cur_compute"]
    /\ nRolls' = nRolls + 1
    /\ UNCHANGED <<mc, now, arg, res, heldSnap, heldHist, nAdds, nMut, counted, sources,
                   frozen>>
    /\ CollectorFrame

\* metrics := mc.computeMetrics(mc.currentWindow)
CurCompute(p) ==
    /\ cpc[p] = "cur_compute"
    /\ \E tp \in TopN(mc.currentWindow.paths, TopLimit),
          ti \in TopN(mc.currentWindow.ips, TopLimit),
          tu \in TopN(mc.currentWindow.userAgents, TopLimit) :
         \E r \in {Call(<<"ComputeMetricsOf", mc, now, tp, ti, tu>>)} :
         /\ mc' = r.c
         /\ res' = [res EXCEPT ![p] = r.metrics]
         /\ frozen' = Append(frozen, [m |-> r.metrics, deep |-> Deep(r.c, r.metrics)])
    /\ sources' = Append(sources, [total |-> mc.currentWindow.totalRequests,
                                   errors |-> mc.currentWindow.errorCount,
                                   times |-> Len(mc.currentWindow.responseTimes),
                                   elapsed |-> now - mc.currentWindow.startTime])
    /\ cpc' = [cpc EXCEPT ![p] = "cur_archive"]
    /\ UNCHANGED <<mu, now, arg, heldSnap, heldHist, nAdds, nRolls, nMut, counted>>
    /\ CollectorFrame

\* the append to mc.historicalMetrics and the eviction
CurArchive(p) ==
    /\ cpc[p] = "cur_archive"
    /\ mc' = ArchiveOf(mc, res[p])
    /\ cpc' = [cpc EXCEPT ![p] = "cur_roll"]
    /\ UNCHANGED <<mu, now, arg, res, heldSnap, heldHist, nAdds, nRolls, nMut, counted,
                   sources, frozen>>
    /\ CollectorFrame

\* mc.currentWindow = newMetricsWindow(), return metrics, the deferred Unlock
CurRoll(p) ==
    /\ cpc[p] = "cur_roll"
    /\ mc' = NewMetricsWindowOf(mc, now)
    /\ heldSnap' = res[p]
    /\ res' = [res EXCEPT ![p] = ZeroMetrics]
    /\ mu' = [mu EXCEPT !.w = 0]
    /\ cpc' = [cpc EXCEPT ![p] = "idle"]
    /\ UNCHANGED <<now, arg, heldHist, nAdds, nRolls, nMut, counted, sources, frozen>>
    /\ CollectorFrame

\* GetHistoricalMetrics: mc.mu.RLock()
HistLock(p) ==
    /\ cpc[p] = "idle" /\ CanRLock(mu)
    /\ mu' = [mu EXCEPT !.r = @ \cup {p}]
    /\ cpc' = [cpc EXCEPT ![p] = "hist_copy"]
    /\ UNCHANGED <<mc, now, arg, res, heldSnap, heldHist, nAdds, nRolls, nMut, counted,
                   sources, frozen>>
    /\ CollectorFrame

\* the copy, the return and the deferred RUnlock
HistCopy(p) ==
    /\ cpc[p] = "hist_copy"
    /\ heldHist' = GetHistoricalMetricsOf(mc)
    /\ mu' = [mu EXCEPT !.r = @ \ {p}]
    /\ cpc' = [cpc EXCEPT ![p] = "idle"]
    /\ UNCHANGED <<mc, now, arg, res, heldSnap, nAdds, nRolls, nMut, counted, sources,
                   frozen>>
    /\ CollectorFrame

(***************************************************************************)
(* What a caller may do with the slice GetHistoricalMetrics returned.      *)
(***************************************************************************)
\* historical[i] = Metrics{}
MutReplace ==
    /\ nMut < MaxMutations
    /\ \E i \in 1..Len(heldHist) : heldHist' = [heldHist EXCEPT ![i] = ZeroMetrics]
    /\ nMut' = nMut + 1
    /\ UNCHANGED <<mc, now, mu, cpc, arg, res, heldSnap, nAdds, nRolls, counted,
                   sources, frozen>>
    /\ CollectorFrame

\* historical = append(historical, Metrics{})
MutAppend ==
    /\ nMut < MaxMutations
    /\ heldHist' = Append(heldHist, ZeroMetrics)
    /\ nMut' = nMut + 1
    /\ UNCHANGED <<mc, now, mu, cpc, arg, res, heldSnap, nAdds, nRolls, counted,
                   sources, frozen>>
    /\ CollectorFrame

\* historical[i].StatusCodes[200] = 0
MutMap ==
    /\ nMut < MaxMutations
    /\ \E i \in 1..Len(heldHist) :
         /\ heldHist[i].StatusCodes # 0
         /\ mc' = [mc EXCEPT !.maps[heldHist[i].StatusCodes] = Put(@, 200, 0)]
    /\ nMut' = nMut + 1
    /\ UNCHANGED <<now, mu, cpc, arg, res, heldSnap, heldHist, nAdds, nRolls, counted,
                   sources, frozen>>
    /\ CollectorFrame

\* historical[i].TopPaths[0].Count = 0
MutSlice ==
    /\ nMut < MaxMutations
    /\ \E i \in 1..Len(heldHist) :
         /\ heldHist[i].TopPaths # 0
         /\ mc' = [mc EXCEPT !.slices[heldHist[i].TopPaths][1].Count = 0]
    /\ nMut' = nMut + 1
    /\ UNCHANGED <<now, mu, cpc, arg, res, heldSnap, heldHist, nAdds, nRolls, counted,
                   sources, frozen>>
    /\ CollectorFrame

ClockAdvance ==
    /\ now < MaxClock
    /\ now' = now + 1
    /\ UNCHANGED <<mc, callerVars, counted, sources, frozen>>
    /\ CollectorFrame

\* the collector after n more seconds in which no entry was added: each tick
\* of AnomalyDetector.Start calls GetCurrentMetrics, which archives the
\* snapshot of the empty window and installs a new window
RECURSIVE AfterIdleTicks(_, _, _)
AfterIdleTicks(c, t, n) ==
    IF n = 0 THEN c
    ELSE LET before == AfterIdleTicks(c, t, n - 1)
             at == t + n * UnitsPerSec
             r == Call(<<"ComputeMetricsOf", before, at, <<>>, <<>>, <<>>>>)
         IN NewMetricsWindowOf(ArchiveOf(r.c, r.metrics), at)

\* the clock after the idle seconds
IdleClock == IdleTicks * UnitsPerSec

\* the collector of a program that ran for IdleTicks seconds with no log line
IdleCollector == AfterIdleTicks(NewMetricsCollector(0), 0, IdleTicks)

\* the same, and a request that failed was added in the second that followed
BusyCollector == AddLogEntryOf(IdleCollector, EntryTable[4])

\* a collector whose history holds MaxHistoricalSize snapshots
SmallCollector == [NewMetricsCollector(0) EXCEPT !.maxHistoricalSize = MaxHistoricalSize]

\* the collector c at time t, with no call on it in progress
CollectorFieldsOf(c, t) ==
    /\ mc = c
    /\ mu = [w |-> 0, r |-> {}]
    /\ now = t
    /\ cpc = [p \in Callers |-> "idle"]
    /\ arg = [p \in Callers |-> ParseError]
    /\ res = [p \in Callers |-> ZeroMetrics]
    /\ heldSnap = ZeroMetrics
    /\ heldHist = <<>>
    /\ nAdds = 0 /\ nRolls = 0 /\ nMut = 0
    /\ counted = [total |-> 0, errors |-> 0]
    /\ sources = <<>>
    /\ frozen = <<>>

(***************************************************************************)
(* AnomalyDetector.Start. A value on a channel is [kind, tick, type, at]:  *)
(* a *models.Metrics or a *models.Anomaly, its timestamp, and the tick it  *)
(* was produced in.                                                        *)
(***************************************************************************)
NoMsg == [kind |-> "none", tick |-> 0, type |-> "", at |-> 0]

MetricsMsg(t, m) == [kind |-> "metrics", tick |-> t, type |-> "", at |-> m.Timestamp]

AnomalyMsg(t, ty, at) == [kind |-> "anomaly", tick |-> t, type |-> ty, at |-> at]

\* a variant that sends the anomalies of a tick before its metrics
AnomaliesFirst(m, anoms) == anoms \o <<m>>

\* the sends of one tick: output <- metrics, then output <- anomaly for each
TickSends(m, anoms) == <<m>> \o anoms

PipeFrame == UNCHANGED <<fsVars, tVars, lsPc, lsHeld, ctlVars, histVars, detVars,
                        parserVars, topVars, ctorVars>>

\* case logEntry, ok := <-input: ad.metricsCollector.AddLogEntry(entry)
AdRecv ==
    /\ Alive /\ adPc = "select" /\ output # <<>>
    /\ output' = Tail(output)
    /\ mc' = AddLogEntryOf(mc, Head(output))
    /\ counted' = [total |-> counted.total + 1,
                   errors |-> counted.errors +
                       IF Head(output).Level = "error" \/ Head(output).StatusCode >= 400
                       THEN 1 ELSE 0]
    /\ UNCHANGED <<now, callerVars, sources, frozen, pipeVars>>
    /\ PipeFrame

\* the ticker fires after one second; a tick that finds ticker.C full is dropped
TickFire ==
    /\ Alive /\ adPc # "done" /\ nTicks < budget.ticks
    /\ nTicks' = nTicks + 1
    /\ now' = now + UnitsPerSec
    /\ tickPending' = TRUE
    /\ UNCHANGED <<mc, callerVars, counted, sources, frozen>>
    /\ UNCHANGED <<adPc, adQueue, detOut, tickNo, hiPc, hiHeld, broadcast, blPc, blMsg,
                   blClient, clients, wsPc, outLog, relayed, broadcasted>>
    /\ UNCHANGED <<tailerVars, detVars, parserVars, topVars,
                   ctorVars>>

\* case <-ticker.C: GetCurrentMetrics, GetHistoricalMetrics, Detect on the
\* snapshot and the copy of the history, and the values to send
AdTick ==
    /\ Alive /\ adPc = "select" /\ tickPending
    /\ tickPending' = FALSE
    /\ tickNo' = tickNo + 1
    /\ \E tp \in TopN(mc.currentWindow.paths, TopLimit),
          ti \in TopN(mc.currentWindow.ips, TopLimit),
          tu \in TopN(mc.currentWindow.userAgents, TopLimit) :
         \E r \in {Call(<<"ComputeMetricsOf", mc, now, tp, ti, tu>>)} :
         LET rolled == NewMetricsWindowOf(ArchiveOf(r.c, r.metrics), now)
             historical == GetHistoricalMetricsOf(rolled)
         IN \E found \in {Call(<<"Detect", det, r.metrics, historical>>)} :
            /\ mc' = rolled
            /\ heldSnap' = r.metrics
            /\ heldHist' = historical
            /\ frozen' = Append(frozen, [m |-> r.metrics, deep |-> Deep(r.c, r.metrics)])
            /\ det' = found.d
            /\ adQueue' = TickSends(MetricsMsg(tickNo + 1, r.metrics),
                                    [i \in 1..Len(found.out) |->
                                       AnomalyMsg(tickNo + 1, found.out[i].Type, now)])
    /\ sources' = Append(sources, [total |-> mc.currentWindow.totalRequests,
                                   errors |-> mc.currentWindow.errorCount,
                                   times |-> Len(mc.currentWindow.responseTimes),
                                   elapsed |-> now - mc.currentWindow.startTime])
    /\ adPc' = "send"
    /\ UNCHANGED <<now, mu, cpc, arg, res, nAdds, nRolls, nMut, counted>>
    /\ UNCHANGED <<detOut, nTicks, hiPc, hiHeld, broadcast, blPc, blMsg, blClient,
                   clients, wsPc, outLog,
                   relayed, broadcasted>>
    /\ UNCHANGED <<dHist, dBudget, nCalls, lastCall, run>>
    /\ UNCHANGED <<tailerVars, parserVars, topVars, ctorVars>>

\* output <- metrics, output <- anomaly: each send waits for room
AdSend ==
    /\ Alive /\ adPc = "send" /\ Len(detOut) < ChanCap
    /\ detOut' = Append(detOut, Head(adQueue))
    /\ outLog' = Append(outLog, Head(adQueue))
    /\ adQueue' = Tail(adQueue)
    /\ adPc' = IF Tail(adQueue) = <<>> THEN "select" ELSE "send"
    /\ UNCHANGED <<tickPending, nTicks, tickNo, hiPc, hiHeld, broadcast, blPc, blMsg,
                   blClient, clients, wsPc, relayed, broadcasted>>
    /\ UNCHANGED <<collectorVars, tailerVars, detVars, parserVars, topVars,
                   ctorVars>>

\* case <-ctx.Done(): return
AdCtxDone ==
    /\ Alive /\ adPc = "select" /\ cancelled
    /\ adPc' = "done"
    /\ UNCHANGED <<adQueue, detOut, tickPending, nTicks, tickNo, hiPc, hiHeld, broadcast,
                   blPc, blMsg, blClient, clients, wsPc, outLog, relayed, broadcasted>>
    /\ UNCHANGED <<collectorVars, tailerVars, detVars, parserVars, topVars,
                   ctorVars>>

AnomalyDetectorStart == AdRecv \/ AdTick \/ AdSend \/ AdCtxDone

(***************************************************************************)
(* dashboard.Server: handleInput and broadcastLoop.                        *)
(***************************************************************************)
\* the connections handleWebSocket is called for
Conns == 1 .. MaxClients

\* case data, ok := <-input
HiRecv ==
    /\ Alive /\ hiPc = "select" /\ detOut # <<>>
    /\ hiHeld' = Head(detOut)
    /\ detOut' = Tail(detOut)
    /\ hiPc' = "send"
    /\ UNCHANGED <<adPc, adQueue, tickPending, nTicks, tickNo, broadcast, blPc, blMsg,
                   blClient, clients, wsPc, outLog, relayed, broadcasted>>
    /\ UNCHANGED <<collectorVars, tailerVars, detVars, parserVars, topVars,
                   ctorVars>>

\* s.broadcast <- data
HiSend ==
    /\ Alive /\ hiPc = "send" /\ Len(broadcast) < BroadcastCap
    /\ broadcast' = Append(broadcast, hiHeld)
    /\ relayed' = Append(relayed, hiHeld)
    /\ hiHeld' = NoMsg
    /\ hiPc' = "select"
    /\ UNCHANGED <<adPc, adQueue, detOut, tickPending, nTicks, tickNo, blPc, blMsg,
                   blClient, clients, wsPc, outLog, broadcasted>>
    /\ UNCHANGED <<collectorVars, tailerVars, detVars, parserVars, topVars,
                   ctorVars>>

\* case <-ctx.Done(): return
HiCtxDone ==
    /\ Alive /\ hiPc = "select" /\ cancelled
    /\ hiPc' = "done"
    /\ UNCHANGED <<adPc, adQueue, detOut, tickPending, nTicks, tickNo, hiHeld, broadcast,
                   blPc, blMsg, blClient, clients, wsPc, outLog, relayed, broadcasted>>
    /\ UNCHANGED <<collectorVars, tailerVars, detVars, parserVars, topVars,
                   ctorVars>>

HandleInput == HiRecv \/ HiSend \/ HiCtxDone

\* case message := <-s.broadcast
BlRecv ==
    /\ Alive /\ blPc = "select" /\ broadcast # <<>>
    /\ blMsg' = Head(broadcast)
    /\ broadcast' = Tail(broadcast)
    /\ broadcasted' = Append(broadcasted, Head(broadcast))
    /\ blPc' = "rlock"
    /\ UNCHANGED <<adPc, adQueue, detOut, tickPending, nTicks, tickNo, hiPc, hiHeld,
                   blClient, clients, wsPc, outLog, relayed>>
    /\ UNCHANGED <<collectorVars, tailerVars, detVars, parserVars, topVars,
                   ctorVars>>

\* s.clientsMu is an RWMutex: Lock waits until no reader holds it, and RLock
\* waits while a goroutine is in Lock
ReadLocked == blPc \in {"write", "remove"}

WriterWaits == \E c \in Conns : wsPc[c] \in {"lock", "remove"}

\* s.clientsMu.RLock() (line 95)
BlRLock ==
    /\ Alive /\ blPc = "rlock" /\ ~WriterWaits
    /\ blPc' = "write"
    /\ UNCHANGED <<adPc, adQueue, detOut, tickPending, nTicks, tickNo, hiPc, hiHeld,
                   broadcast, blMsg, blClient, clients, wsPc, outLog, relayed,
                   broadcasted>>
    /\ UNCHANGED <<collectorVars, tailerVars, detVars, parserVars, topVars,
                   ctorVars>>

\* the loop over s.clients: every WriteJSON succeeds, s.clientsMu.RUnlock()
BlWriteOk ==
    /\ Alive /\ blPc = "write"
    /\ blPc' = "select"
    /\ blMsg' = NoMsg
    /\ UNCHANGED <<adPc, adQueue, detOut, tickPending, nTicks, tickNo, hiPc, hiHeld,
                   broadcast, blClient, clients, wsPc, outLog, relayed, broadcasted>>
    /\ UNCHANGED <<collectorVars, tailerVars, detVars, parserVars, topVars,
                   ctorVars>>

\* the WriteJSON to one of the clients fails: client.Close(), and
\* s.removeClient(client) waits for s.clientsMu.Lock() while this goroutine
\* holds the read lock
BlWriteErr ==
    /\ Alive /\ blPc = "write"
    /\ \E c \in clients : blClient' = c
    /\ blPc' = "remove"
    /\ UNCHANGED <<adPc, adQueue, detOut, tickPending, nTicks, tickNo, hiPc, hiHeld,
                   broadcast, blMsg, clients, wsPc, outLog, relayed, broadcasted>>
    /\ UNCHANGED <<collectorVars, tailerVars, detVars, parserVars, topVars,
                   ctorVars>>

\* case <-ctx.Done(): return
BlCtxDone ==
    /\ Alive /\ blPc = "select" /\ cancelled
    /\ blPc' = "done"
    /\ UNCHANGED <<adPc, adQueue, detOut, tickPending, nTicks, tickNo, hiPc, hiHeld,
                   broadcast, blMsg, blClient, clients, wsPc, outLog, relayed, broadcasted>>
    /\ UNCHANGED <<collectorVars, tailerVars, detVars, parserVars, topVars,
                   ctorVars>>

BroadcastLoop == BlRecv \/ BlRLock \/ BlWriteOk \/ BlWriteErr \/ BlCtxDone

\* handleWebSocket (lines 109-128), one call for each connection. The
\* connections are numbered in the order of their requests.
WsFrame ==
    /\ UNCHANGED <<adPc, adQueue, detOut, tickPending, nTicks, tickNo, hiPc, hiHeld,
                   broadcast, blPc, blMsg, blClient, outLog, relayed, broadcasted>>
    /\ UNCHANGED <<collectorVars, tailerVars, detVars, parserVars, topVars,
                   ctorVars>>

\* s.upgrader.Upgrade succeeds (line 110): the handler calls
\* s.clientsMu.Lock()
WsUpgrade(c) ==
    /\ Alive /\ wsPc[c] = "idle"
    /\ \A b \in 1 .. (c - 1) : wsPc[b] # "idle"
    /\ wsPc' = [wsPc EXCEPT ![c] = "lock"]
    /\ UNCHANGED clients
    /\ WsFrame

\* s.clients[conn] = true, under the lock (lines 116-118)
WsRegister(c) ==
    /\ Alive /\ wsPc[c] = "lock" /\ ~ReadLocked
    /\ clients' = clients \cup {c}
    /\ wsPc' = [wsPc EXCEPT ![c] = "open"]
    /\ WsFrame

\* conn.NextReader() returns an error (line 124): the peer has gone, or
\* broadcastLoop has closed the connection; the handler calls removeClient
WsReadErr(c) ==
    /\ Alive /\ wsPc[c] = "open"
    /\ wsPc' = [wsPc EXCEPT ![c] = "remove"]
    /\ UNCHANGED clients
    /\ WsFrame

\* removeClient (lines 130-134), called by the handler
WsRemove(c) ==
    /\ Alive /\ wsPc[c] = "remove" /\ ~ReadLocked
    /\ clients' = clients \ {c}
    /\ wsPc' = [wsPc EXCEPT ![c] = "closed"]
    /\ WsFrame

\* the steps of a handler that do not wait for the peer
WsLocked == \E c \in Conns : WsRegister(c) \/ WsRemove(c)

ClientConnect == \E c \in Conns : WsUpgrade(c) \/ WsReadErr(c)

HandleWebSocket == ClientConnect \/ WsLocked

\* the state after NewAnomalyDetector and NewServer
PipelineFields ==
    /\ adPc = "select"
    /\ adQueue = <<>>
    /\ detOut = <<>>
    /\ tickPending = FALSE
    /\ nTicks = 0 /\ tickNo = 0
    /\ hiPc = "select"
    /\ hiHeld = NoMsg
    /\ broadcast = <<>>
    /\ blPc = "select"
    /\ blMsg = NoMsg
    /\ blClient = 0
    /\ clients = {}
    /\ wsPc = [c \in Conns |-> "idle"]
    /\ outLog = <<>>
    /\ relayed = <<>>
    /\ broadcasted = <<>>

(***************************************************************************)
(* Detection algorithms. A detector reads three fields of a Metrics: the   *)
(* metrics are named as the anomalies name them, in the order Detect       *)
(* checks them.                                                            *)
(***************************************************************************)
MetricNames == <<"error_rate", "requests_per_sec", "avg_response_time">>

Metrics3 == {"error_rate", "requests_per_sec", "avg_response_time"}

\* the field of m a metric names
ValueOf(m, metric) ==
    CASE metric = "error_rate" -> m.ErrorRate
      [] metric = "requests_per_sec" -> m.RequestsPerSec
      [] metric = "avg_response_time" -> m.AvgResponseTime

\* the anomaly type reported for a metric
TypeOf(metric) ==
    CASE metric = "error_rate" -> "error_rate"
      [] metric = "requests_per_sec" -> "traffic_spike"
      [] metric = "avg_response_time" -> "response_time"

\* a Metrics with the three fields set
Obs(er, rps, rt) ==
    [ZeroMetrics EXCEPT !.ErrorRate = er, !.RequestsPerSec = rps, !.AvgResponseTime = rt]

\* a models.Anomaly (without its timestamp); dir is the suffix CUSUM adds
\* to the description: "upward", "downward", or "" for none
Anomaly(metric, severity, dir, actual, expected, deviation) ==
    [Type |-> TypeOf(metric), Severity |-> severity, Metric |-> metric, Dir |-> dir,
     ActualValue |-> actual, ExpectedValue |-> expected, Deviation |-> deviation]

\* sum := 0.0; for _, m := range metrics { sum += getValue(m) }
RECURSIVE SumValues(_, _)
SumValues(h, metric) ==
    IF h = <<>> THEN RInt(0)
    ELSE RAdd(SumValues(SubSeq(h, 1, Len(h) - 1), metric), ValueOf(h[Len(h)], metric))

\* sum / float64(len(historical)), for a history that is not empty
MeanOf(h, metric) == RDiv(SumValues(h, metric), RInt(Len(h)))

\* variance := 0.0; for ... { diff := getValue(m) - mean; variance += diff * diff }
RECURSIVE SumSquares(_, _, _)
SumSquares(h, metric, mean) ==
    IF h = <<>> THEN RInt(0)
    ELSE LET diff == RSub(ValueOf(h[Len(h)], metric), mean)
         IN RAdd(SumSquares(SubSeq(h, 1, Len(h) - 1), metric, mean), RMul(diff, diff))

\* calculateStats
calculateStats(h, metric) ==
    IF Len(h) = 0 THEN [mean |-> RInt(0), stdDev |-> RInt(0)]
    ELSE LET mean == MeanOf(h, metric)
         IN [mean |-> mean,
             stdDev |-> RSqrt(RDiv(SumSquares(h, metric, mean), RInt(Len(h))))]

\* calculateSeverity
calculateSeverity(actual, expected, stdDev) ==
    LET deviation == RAbs(RSub(actual, expected)) IN
    IF RLess(RMul(RInt(4), stdDev), deviation) THEN "critical"
    ELSE IF RLess(RMul(RInt(3), stdDev), deviation) THEN "high"
    ELSE IF RLess(RMul(RInt(2), stdDev), deviation) THEN "medium"
    ELSE "low"

\* the least length of history StdDevDetector.Detect works with
StdDevMinHistory == 10

\* the Deviation StdDevDetector.Detect reports
StdDevDeviation(metric, current, mean) ==
    IF metric = "avg_response_time" THEN RSub(current, mean)
    ELSE RAbs(RSub(current, mean))

\* a variant that also flags a response time below the mean
StdDevExceedsAbs(metric, current, mean, bound) ==
    RLess(bound, RAbs(RSub(current, mean)))

\* the condition of a check of StdDevDetector.Detect, bound being
\* d.threshold*stdDev
StdDevExceeds(metric, current, mean, bound) ==
    IF metric = "avg_response_time" THEN RLess(RAdd(mean, bound), current)
    ELSE RLess(bound, RAbs(RSub(current, mean)))

\* one of the three checks of StdDevDetector.Detect: the anomalies it appends
StdDevCheck(d, current, historical, metric) ==
    LET st == Call(<<"calculateStats", historical, metric>>)
        x == ValueOf(current, metric)
    IN IF StdDevExceeds(metric, x, st.mean, RMul(d.threshold, st.stdDev))
       THEN <<Anomaly(metric, calculateSeverity(x, st.mean, st.stdDev), "",
                      x, st.mean, StdDevDeviation(metric, x, st.mean))>>
       ELSE <<>>

\* StdDevDetector.Detect
StdDevDetect(d, current, historical) ==
    IF Len(historical) < StdDevMinHistory THEN <<>>
    ELSE StdDevCheck(d, current, historical, MetricNames[1])
           \o StdDevCheck(d, current, historical, MetricNames[2])
           \o StdDevCheck(d, current, historical, MetricNames[3])

(***************************************************************************)
(* MovingAverageDetector.                                                  *)
(***************************************************************************)
\* a variant that keeps an alpha of exactly 1
NewMovingAverageDetectorLoose(threshold, alpha) ==
    [kind |-> "moving_average",
     threshold |-> threshold,
     alpha |-> IF ~RLess(RInt(0), alpha) \/ RLess(RInt(1), alpha)
               THEN RNorm(3, 10) ELSE alpha,
     ewmaErrorRate |-> RInt(0),
     ewmaRequestsPerSec |-> RInt(0),
     ewmaAvgResponseTime |-> RInt(0),
     initialized |-> FALSE]

\* NewMovingAverageDetector
NewMovingAverageDetector(threshold, alpha) ==
    [kind |-> "moving_average",
     threshold |-> threshold,
     alpha |-> IF ~RLess(RInt(0), alpha) \/ ~RLess(alpha, RInt(1))
               THEN RNorm(3, 10) ELSE alpha,
     ewmaErrorRate |-> RInt(0),
     ewmaRequestsPerSec |-> RInt(0),
     ewmaAvgResponseTime |-> RInt(0),
     initialized |-> FALSE]

\* the field that holds the EWMA of a metric
EwmaField(metric) ==
    CASE metric = "error_rate" -> "ewmaErrorRate"
      [] metric = "requests_per_sec" -> "ewmaRequestsPerSec"
      [] metric = "avg_response_time" -> "ewmaAvgResponseTime"

\* the least length of history MovingAverageDetector initializes on
EwmaMinHistory == 5

\* initializeEWMA
initializeEWMA(d, historical) ==
    IF Len(historical) = 0 THEN d
    ELSE [d EXCEPT !.ewmaErrorRate = MeanOf(historical, "error_rate"),
                   !.ewmaRequestsPerSec = MeanOf(historical, "requests_per_sec"),
                   !.ewmaAvgResponseTime = MeanOf(historical, "avg_response_time")]

\* calculateEWMASeverity
calculateEWMASeverity(deviation, expected) ==
    IF expected = RInt(0) THEN "low"
    ELSE LET relativeDeviation == RDiv(deviation, expected)
         IN IF RLess(RInt(2), relativeDeviation) THEN "critical"
            ELSE IF RLess(RInt(1), relativeDeviation) THEN "high"
            ELSE IF RLess(RNorm(1, 2), relativeDeviation) THEN "medium"
            ELSE "low"

\* a variant that weighs the observation by 1 - alpha
EwmaUpdateSwapped(alpha, x, prev) ==
    RAdd(RMul(RSub(RInt(1), alpha), x), RMul(alpha, prev))

\* d.alpha*current + (1-d.alpha)*d.ewma
EwmaUpdate(alpha, x, prev) ==
    RAdd(RMul(alpha, x), RMul(RSub(RInt(1), alpha), prev))

\* a variant that flags a metric whatever its previous EWMA
EwmaGuardNone(metric, prev) == TRUE

\* the guard on the previous EWMA
EwmaGuard(metric, prev) ==
    IF metric = "error_rate" THEN RLess(RNorm(1, 100), prev)
    ELSE RLess(RInt(0), prev)

\* the deviation MovingAverageDetector.Detect compares with threshold*prev
EwmaDeviation(metric, x, prev) ==
    IF metric = "avg_response_time" THEN RSub(x, prev) ELSE RAbs(RSub(x, prev))

\* a variant that scales the threshold by the observation, not by the EWMA
EwmaCheckAgainstCurrent(d, current, metric) ==
    LET x == ValueOf(current, metric)
        prev == d[EwmaField(metric)]
        deviation == EwmaDeviation(metric, x, prev)
    IN [d |-> [d EXCEPT ![EwmaField(metric)] = EwmaUpdate(d.alpha, x, prev)],
        out |-> IF RLess(RMul(d.threshold, x), deviation) /\ EwmaGuard(metric, prev)
                THEN <<Anomaly(metric, calculateEWMASeverity(deviation, prev), "",
                               x, prev, deviation)>>
                ELSE <<>>]

\* one of the three checks of MovingAverageDetector.Detect: [d, out]
EwmaCheck(d, current, metric) ==
    LET x == ValueOf(current, metric)
        prev == d[EwmaField(metric)]
        deviation == EwmaDeviation(metric, x, prev)
    IN [d |-> [d EXCEPT ![EwmaField(metric)] = EwmaUpdate(d.alpha, x, prev)],
        out |-> IF RLess(RMul(d.threshold, prev), deviation) /\ EwmaGuard(metric, prev)
                THEN <<Anomaly(metric, calculateEWMASeverity(deviation, prev), "",
                               x, prev, deviation)>>
                ELSE <<>>]

\* a variant that initializes one snapshot early
EwmaColdEarly(d, historical) ==
    ~d.initialized /\ Len(historical) < EwmaMinHistory - 1

\* the cold start of MovingAverageDetector.Detect: return without a baseline
EwmaCold(d, historical) ==
    ~d.initialized /\ Len(historical) < EwmaMinHistory

\* MovingAverageDetector.Detect: [d, out]
EwmaDetect(d, current, historical) ==
    IF EwmaCold(d, historical) THEN [d |-> d, out |-> <<>>]
    ELSE LET d0 == IF d.initialized THEN d
                   ELSE [initializeEWMA(d, historical) EXCEPT !.initialized = TRUE]
             r1 == Call(<<"EwmaCheck", d0, current, MetricNames[1]>>)
             r2 == Call(<<"EwmaCheck", r1.d, current, MetricNames[2]>>)
             r3 == Call(<<"EwmaCheck", r2.d, current, MetricNames[3]>>)
         IN [d |-> r3.d, out |-> r1.out \o r2.out \o r3.out]

(***************************************************************************)
(* CUSUMDetector.                                                          *)
(***************************************************************************)
\* NewCUSUMDetector
NewCUSUMDetector(slackParameter, decisionThreshold) ==
    [kind |-> "cusum",
     slackParameter |-> IF ~RLess(RInt(0), slackParameter) THEN RNorm(1, 2)
                        ELSE slackParameter,
     decisionThreshold |-> IF ~RLess(RInt(0), decisionThreshold) THEN RInt(5)
                           ELSE decisionThreshold,
     cusumPosErrorRate |-> RInt(0), cusumNegErrorRate |-> RInt(0),
     cusumPosRequestsPerSec |-> RInt(0), cusumNegRequestsPerSec |-> RInt(0),
     cusumPosResponseTime |-> RInt(0), cusumNegResponseTime |-> RInt(0),
     referenceErrorRate |-> RInt(0), referenceRequestsPerSec |-> RInt(0),
     referenceResponseTime |-> RInt(0),
     initialized |-> FALSE]

\* the fields Detect passes to detectCUSUMAnomaly for a metric
PosField(metric) ==
    CASE metric = "error_rate" -> "cusumPosErrorRate"
      [] metric = "requests_per_sec" -> "cusumPosRequestsPerSec"
      [] metric = "avg_response_time" -> "cusumPosResponseTime"

NegField(metric) ==
    CASE metric = "error_rate" -> "cusumNegErrorRate"
      [] metric = "requests_per_sec" -> "cusumNegRequestsPerSec"
      [] metric = "avg_response_time" -> "cusumNegResponseTime"

RefField(metric) ==
    CASE metric = "error_rate" -> "referenceErrorRate"
      [] metric = "requests_per_sec" -> "referenceRequestsPerSec"
      [] metric = "avg_response_time" -> "referenceResponseTime"

\* the least length of history CUSUMDetector initializes on
CusumMinHistory == 10

\* initializeReferences
initializeReferences(d, historical) ==
    IF Len(historical) = 0 THEN d
    ELSE [d EXCEPT !.referenceErrorRate = MeanOf(historical, "error_rate"),
                   !.referenceRequestsPerSec = MeanOf(historical, "requests_per_sec"),
                   !.referenceResponseTime = MeanOf(historical, "avg_response_time")]

\* calculateCUSUMSeverity
calculateCUSUMSeverity(cusumValue, threshold) ==
    LET ratio == RDiv(cusumValue, threshold) IN
    IF RLess(RInt(3), ratio) THEN "critical"
    ELSE IF RLess(RInt(2), ratio) THEN "high"
    ELSE IF RLess(RNorm(3, 2), ratio) THEN "medium"
    ELSE "low"

\* a variant that forgets the sum of the earlier calls
CusumPosFresh(pos, x, ref, k) == RMax(RInt(0), RSub(RSub(x, ref), k))

\* a variant without the slack
CusumPosNoSlack(pos, x, ref, k) == RMax(RInt(0), RAdd(pos, RSub(x, ref)))

\* math.Max(0, *cusumPos + (currentValue - referenceMean - d.slackParameter))
CusumPos(pos, x, ref, k) == RMax(RInt(0), RAdd(pos, RSub(RSub(x, ref), k)))

\* a variant that lets the downward sum fall below 0
CusumNegUnclamped(neg, x, ref, k) == RSub(neg, RAdd(RSub(x, ref), k))

\* math.Max(0, *cusumNeg - (currentValue - referenceMean + d.slackParameter))
CusumNeg(neg, x, ref, k) == RMax(RInt(0), RSub(neg, RAdd(RSub(x, ref), k)))

\* a variant that keeps the sums after a detection
CusumKeep(d, metric) == d

\* *cusumPos = 0; *cusumNeg = 0
CusumReset(d, metric) ==
    [d EXCEPT ![PosField(metric)] = RInt(0), ![NegField(metric)] = RInt(0)]

\* a variant that reports x - mu for both directions
CusumDeviationSigned(dir, x, ref) == RSub(x, ref)

\* deviation := currentValue - referenceMean, or referenceMean - currentValue
CusumDeviation(dir, x, ref) ==
    IF dir = "upward" THEN RSub(x, ref) ELSE RSub(ref, x)

\* detectCUSUMAnomaly: [d, out], out the anomaly returned, if any
detectCUSUMAnomaly(d, currentValue, metric) ==
    LET referenceMean == d[RefField(metric)]
        pos == CusumPos(d[PosField(metric)], currentValue, referenceMean, d.slackParameter)
        neg == CusumNeg(d[NegField(metric)], currentValue, referenceMean, d.slackParameter)
        d1 == [d EXCEPT ![PosField(metric)] = pos, ![NegField(metric)] = neg]
    IN IF RLess(d.decisionThreshold, pos)
       THEN [d |-> CusumReset(d1, metric),
             out |-> <<Anomaly(metric, calculateCUSUMSeverity(pos, d.decisionThreshold),
                               "upward", currentValue, referenceMean,
                               CusumDeviation("upward", currentValue, referenceMean))>>]
       ELSE IF RLess(d.decisionThreshold, neg)
       THEN [d |-> CusumReset(d1, metric),
             out |-> <<Anomaly(metric, calculateCUSUMSeverity(neg, d.decisionThreshold),
                               "downward", currentValue, referenceMean,
                               CusumDeviation("downward", currentValue, referenceMean))>>]
       ELSE [d |-> d1, out |-> <<>>]

\* the cold start of CUSUMDetector.Detect: return without a baseline
CusumCold(d, historical) ==
    ~d.initialized /\ Len(historical) < CusumMinHistory

\* a variant that takes its reference means from the history on every call
CusumDetectReinit(d, current, historical) ==
    IF CusumCold(d, historical) THEN [d |-> d, out |-> <<>>]
    ELSE LET d0 == IF d.initialized /\ Len(historical) < CusumMinHistory THEN d
                   ELSE [initializeReferences(d, historical) EXCEPT !.initialized = TRUE]
             r1 == Call(<<"detectCUSUMAnomaly", d0,
                          ValueOf(current, MetricNames[1]), MetricNames[1]>>)
             r2 == Call(<<"detectCUSUMAnomaly", r1.d,
                          ValueOf(current, MetricNames[2]), MetricNames[2]>>)
             r3 == Call(<<"detectCUSUMAnomaly", r2.d,
                          ValueOf(current, MetricNames[3]), MetricNames[3]>>)
         IN [d |-> r3.d, out |-> r1.out \o r2.out \o r3.out]

\* CUSUMDetector.Detect: [d, out]
CusumDetect(d, current, historical) ==
    IF CusumCold(d, historical) THEN [d |-> d, out |-> <<>>]
    ELSE LET d0 == IF d.initialized THEN d
                   ELSE [initializeReferences(d, historical) EXCEPT !.initialized = TRUE]
             r1 == Call(<<"detectCUSUMAnomaly", d0,
                          ValueOf(current, MetricNames[1]), MetricNames[1]>>)
             r2 == Call(<<"detectCUSUMAnomaly", r1.d,
                          ValueOf(current, MetricNames[2]), MetricNames[2]>>)
             r3 == Call(<<"detectCUSUMAnomaly", r2.d,
                          ValueOf(current, MetricNames[3]), MetricNames[3]>>)
         IN [d |-> r3.d, out |-> r1.out \o r2.out \o r3.out]

\* the StdDevDetector NewAnomalyDetector builds
NewStdDevDetector(threshold) == [kind |-> "stddev", threshold |-> threshold]

\* ad.algorithm.Detect(metrics, historical): [d, out]
Detect(d, current, historical) ==
    CASE d.kind = "stddev" -> [d |-> d, out |-> StdDevDetect(d, current, historical)]
      [] d.kind = "moving_average" -> EwmaDetect(d, current, historical)
      [] d.kind = "cusum" -> CusumDetect(d, current, historical)

(***************************************************************************)
(* The callers of a detector. A caller that holds the detector passes a    *)
(* snapshot and a history of its own to Detect, as the tests of the        *)
(* package do; AnomalyDetector.Start, on a tick, archives the snapshot in  *)
(* the collector and passes the collector's history.                       *)
(***************************************************************************)
NoCall == [cur |-> ZeroMetrics, hist |-> <<>>, pre |-> NewStdDevDetector(FZero),
           out |-> <<>>, made |-> FALSE]

NoRun == [m \in Metrics3 |-> [x |-> FZero, n |-> 0, quiet |-> TRUE]]

DetFrame == UNCHANGED <<tailerVars, collectorVars, pipeVars, parserVars,
                       topVars, ctorVars>>

\* the run of equal observations of each metric after a call with result r, and
\* whether every observation so far was strictly within the slack
RunAfter(r, current) ==
    [m \in Metrics3 |->
        LET x == ValueOf(current, m)
            q == /\ run[m].quiet
                 /\ RLess(RAbs(RSub(x, r.d[RefField(m)])), r.d.slackParameter)
        IN IF \E i \in 1..Len(r.out) : r.out[i].Metric = m
           THEN [x |-> x, n |-> 0, quiet |-> q]
           ELSE IF run[m].n > 0 /\ run[m].x = x
           THEN [x |-> x, n |-> run[m].n + 1, quiet |-> q]
           ELSE [x |-> x, n |-> 1, quiet |-> q]]

\* a caller that holds the detector calls Detect(current, historical) with a
\* snapshot and a history of its own, as the tests of the package do
DetectCall(kind) ==
    /\ det.kind = kind
    /\ nCalls < dBudget.calls
    /\ \E current \in dBudget.obs, historical \in dBudget.hists :
         \E r \in {Call(<<"Detect", det, current, historical>>)} :
         /\ det' = r.d
         /\ lastCall' = [cur |-> current, hist |-> historical, pre |-> det,
                         out |-> r.out, made |-> TRUE]
         /\ run' = IF kind = "cusum" /\ r.d.initialized
                   THEN Call(<<"RunAfter", r, current>>)
                   ELSE run
    /\ nCalls' = nCalls + 1
    /\ UNCHANGED <<dHist, dBudget>>
    /\ DetFrame

StdDevCall == DetectCall("stddev")

EwmaCall == DetectCall("moving_average")

CusumCall == DetectCall("cusum")


\* a variant that reads the history before the snapshot is archived
TickHistoryBefore(h, m) == h

\* the history a tick passes to Detect: GetCurrentMetrics has appended the
\* snapshot m (and dropped the oldest beyond the maximum), then
\* GetHistoricalMetrics copies it
TickHistory(h, m) ==
    LET a == Append(h, m)
    IN IF Len(a) > DefaultMaxHistoricalSize THEN Tail(a) ELSE a

\* case <-ticker.C of AnomalyDetector.Start with the detector's own Detect:
\* metrics := GetCurrentMetrics(); historical := GetHistoricalMetrics();
\* anomalies := ad.algorithm.Detect(metrics, historical)
TickDetect ==
    /\ nCalls < dBudget.calls
    /\ \E current \in dBudget.obs :
         \E h \in {TickHistory(dHist, current)} :
         \E r \in {Call(<<"Detect", det, current, h>>)} :
            /\ dHist' = h
            /\ det' = r.d
            /\ lastCall' = [cur |-> current, hist |-> h, pre |-> det, out |-> r.out,
                            made |-> TRUE]
    /\ nCalls' = nCalls + 1
    /\ UNCHANGED <<dBudget, run>>
    /\ DetFrame

\* the state after NewAnomalyDetector with the default algorithm
DetectorFields ==
    /\ det = NewStdDevDetector(RInt(2))
    /\ dHist = <<>>
    /\ dBudget = [calls |-> 0, obs |-> {}, hists |-> {}]
    /\ nCalls = 0
    /\ lastCall = NoCall
    /\ run = NoRun

(***************************************************************************)
(* The state after NewLogStream and NewTailer, with a log file that may    *)
(* already have content, or no file at the path.                           *)
(***************************************************************************)
TailerOwnFieldsOf(c, t) ==
    /\ events = <<>>
    /\ nAppends = 0 /\ nRot = 0 /\ nTrunc = 0
    /\ file = NilFile
    /\ offset = 0
    /\ incomplete = <<>>
    /\ reader = <<>>
    /\ watcher = "nil"
    /\ watcherOpen = FALSE
    /\ lineChan = <<>>
    /\ lineChanClosed = FALSE
    /\ stopCh = "open"
    /\ tlPc = "idle"
    /\ lsPc = "init"
    /\ lsHeld = ParseError
    /\ output = <<>>
    /\ cancelled = FALSE
    /\ panicked = "none"
    /\ xPc = "idle"
    /\ nStops = 0
    /\ emitted = <<>>
    /\ appended = {}
    /\ dropped = {}
    /\ ctor = NoCtor
    /\ CollectorFieldsOf(c, t)
    /\ PipelineFields

\* with the collector NewMetricsCollector returns
TailerOwnFields == TailerOwnFieldsOf(NewMetricsCollector(0), 0)

\* with the parser of the default format, "json" (NewLogStream, line 37)
TailerFieldsOf(c, t) ==
    /\ TailerOwnFieldsOf(c, t)
    /\ TopFields
    /\ ParserFields
    /\ parsers = [i \in ParserInstances |-> NewParser("json")]

TailerFields == TailerFieldsOf(NewMetricsCollector(0), 0)

(***************************************************************************)
(* TailerSpec: the tailer reads a file that is appended to, truncated and  *)
(* rotated while LogStream.Start consumes the lines. Nothing cancels the   *)
(* context or stops the tailer.                                            *)
(***************************************************************************)
TailerInit ==
    /\ files \in {<< <<>> >>, << <<PreByte, NL>> >>}
    /\ pathIno \in {0, 1}
    /\ budget = [appends |-> MaxAppends, rotations |-> MaxRotations, ticks |-> 0,
                 truncs |-> MaxTruncs, kinds |-> ChunkKinds]
    /\ TailerFields
    /\ DetectorFields

TailerNext ==
    \/ TailEnter \/ TailEvent \/ TailWrite \/ TailCreate \/ TailRotateWake
    \/ TailTick \/ TailRead
    \/ LsStart \/ LsRecv \/ LsSend \/ OutputRecv
    \/ FileSystem

TailerSpec == TailerInit /\ [][TailerNext]_vars

\* The tail loop keeps running: it returns to its select and wakes from the
\* sleep of handleFileRotation. The ticker fires every 100 ms, and a select
\* that is entered again and again takes the ticker's case again and again.
\* The read loop of readNewLines never waits.
FairTailerSpec ==
    /\ TailerSpec
    /\ WF_vars(TailEnter \/ TailWrite \/ TailCreate \/ TailRotateWake \/ TailRead)
    /\ SF_vars(TailTick)

(***************************************************************************)
(* LifecycleSpec: the tailer is started, cancelled and stopped while the   *)
(* file gets whole lines and is rotated.                                   *)
(***************************************************************************)
LifecycleInit ==
    /\ files \in {<< <<>> >>, << <<PreByte, NL>> >>}
    /\ pathIno \in {0, 1}
    /\ budget = [appends |-> LifeAppends, rotations |-> MaxRotations, ticks |-> 0,
                 truncs |-> 0, kinds |-> {"line"}]
    /\ TailerFields
    /\ DetectorFields

LifecycleNext ==
    \/ TailLoop \/ LogStreamStart \/ ClientStop \/ Cancel \/ OutputRecv
    \/ FsAppend \/ FsRotate \/ FsCreate

LifecycleSpec == LifecycleInit /\ [][LifecycleNext]_vars

\* The tail loop keeps running, and a select that finds ctx.Done() or
\* t.stopCh ready again and again takes that case: select chooses among the
\* ready cases at random.
FairLifecycleSpec ==
    /\ LifecycleSpec
    /\ WF_vars(TailEnter \/ TailWrite \/ TailCreate \/ TailRotateWake \/ TailRead)
    /\ SF_vars(TailCtxDone \/ TailStopCh \/ TailWatcherClosed)

(***************************************************************************)
(* CollectorSpec: two callers of one MetricsCollector, and a clock. The    *)
(* collector's history is scaled to hold MaxHistoricalSize snapshots.      *)
(***************************************************************************)
CollectorInit ==
    /\ files = << <<>> >>
    /\ pathIno = 1
    /\ budget = [appends |-> 0, rotations |-> 0, truncs |-> 0, kinds |-> {}, ticks |-> 0]
    /\ TailerFieldsOf(SmallCollector, 0)
    /\ DetectorFields

CollectorNext ==
    \/ \E p \in Callers :
         \/ AddLock(p) \/ AddCounts(p) \/ AddMaps(p)
         \/ CurLock(p) \/ CurCompute(p) \/ CurArchive(p) \/ CurRoll(p)
         \/ HistLock(p) \/ HistCopy(p)
    \/ MutReplace \/ MutAppend \/ MutMap \/ MutSlice
    \/ ClockAdvance

CollectorSpec == CollectorInit /\ [][CollectorNext]_vars

(***************************************************************************)
(* PipelineSpec: the tasks of the pipeline, wired as the specification     *)
(* describes: LogStream.Start writes to the detector's input, the detector *)
(* writes to the dashboard's input, all through bounded channels, and all  *)
(* share one context. The program has run for IdleTicks seconds with no    *)
(* log line: the collector's history holds that many idle snapshots, so    *)
(* that Detect has enough history to report on the tick that follows.      *)
(***************************************************************************)
PipelineInit ==
    /\ files = << <<>> >>
    /\ pathIno = 1
    /\ budget = [appends |-> LifeAppends, rotations |-> 0, truncs |-> 0,
                 kinds |-> {"line"}, ticks |-> MaxPipeTicks]
    /\ TailerFieldsOf(IdleCollector, IdleClock)
    /\ DetectorFields

\* tailLoop where the file is never rotated
PipelineTailLoop ==
    \/ TailEnter \/ TailCtxDone \/ TailStopCh \/ TailWatcherClosed \/ TailEvent
    \/ TailWrite \/ TailTick \/ TailRead

\* the handler of the first connection
FirstConnection == WsUpgrade(1) \/ WsRegister(1) \/ WsReadErr(1) \/ WsRemove(1)

PipelineNext ==
    \/ PipelineTailLoop \/ LogStreamStart \/ AnomalyDetectorStart \/ HandleInput
    \/ BroadcastLoop \/ FirstConnection \/ TickFire \/ Cancel \/ FsAppend

PipelineSpec == PipelineInit /\ [][PipelineNext]_vars

\* AnomalyDetector.Start can take a step: its select has a case that is
\* ready, or the send it is in has room
AdCanStep ==
    /\ Alive
    /\ \/ adPc = "select" /\ (output # <<>> \/ tickPending \/ cancelled)
       \/ adPc = "send" /\ Len(detOut) < ChanCap

\* weak fairness of the detector task, WF_vars(AnomalyDetectorStart), with
\* the condition under which the task can take a step written out
AdFair == []<>(~AdCanStep) \/ []<><<AnomalyDetectorStart>>_vars

\* every goroutine that can take a step eventually takes one
FairPipelineSpec ==
    /\ PipelineSpec
    /\ WF_vars(PipelineTailLoop)
    /\ WF_vars(LogStreamStart)
    /\ AdFair
    /\ WF_vars(HandleInput)
    /\ WF_vars(BroadcastLoop)
    /\ WF_vars(WsRegister(1) \/ WsRemove(1))

(***************************************************************************)
(* DashboardSpec: the detector task, on its ticks alone, feeds the         *)
(* dashboard, to which clients connect and from which they go away. The    *)
(* program has run for IdleTicks seconds with no log line, and one failed  *)
(* request was added to the window since: Detect reports on the first tick.*)
(***************************************************************************)
DashboardInit ==
    /\ files = << <<>> >>
    /\ pathIno = 1
    /\ budget = [appends |-> 0, rotations |-> 0, truncs |-> 0, kinds |-> {},
                 ticks |-> MaxTicks]
    /\ TailerFieldsOf(BusyCollector, IdleClock)
    /\ DetectorFields

DetectorTicks == AdTick \/ AdSend \/ AdCtxDone

DashboardNext ==
    \/ DetectorTicks \/ TickFire \/ HandleInput \/ BroadcastLoop \/ HandleWebSocket
    \/ Cancel

DashboardSpec == DashboardInit /\ [][DashboardNext]_vars

\* every goroutine that can take a step eventually takes one; a handler
\* waits for its peer as long as the peer likes
FairDashboardSpec ==
    /\ DashboardSpec
    /\ AdFair
    /\ WF_vars(HandleInput)
    /\ WF_vars(BroadcastLoop)
    /\ WF_vars(WsLocked)

(***************************************************************************)
(* BackPressureSpec: the detector task and the reader of its output, with  *)
(* no log entries. The detector task is prompt: when it waits in its       *)
(* select it takes a tick before the next one is due, so a second passes   *)
(* only while it has no tick to take or is blocked in a send.              *)
(***************************************************************************)
BackPressureInit ==
    /\ files = << <<>> >>
    /\ pathIno = 1
    /\ budget = [appends |-> 0, rotations |-> 0, truncs |-> 0, kinds |-> {},
                 ticks |-> MaxBackedTicks]
    /\ TailerFields
    /\ DetectorFields

PromptTick ==
    /\ IF adPc = "send" THEN Len(detOut) >= ChanCap ELSE ~tickPending
    /\ TickFire

BackPressureNext == AdTick \/ AdSend \/ PromptTick \/ HiRecv \/ HiSend

BackPressureSpec == BackPressureInit /\ [][BackPressureNext]_vars

(***************************************************************************)
(* IngestSpec: lines are appended to the file, some of which do not parse; *)
(* the tailer reads them, LogStream.Start parses and forwards them, and    *)
(* the detector task adds the entries to the collector and rolls the       *)
(* window on a tick.                                                       *)
(***************************************************************************)
IngestInit ==
    /\ files = << <<>> >>
    /\ pathIno = 1
    /\ budget = [appends |-> MaxIngestAppends, rotations |-> 0, truncs |-> 0,
                 kinds |-> {"line"}, ticks |-> MaxIngestTicks]
    /\ TailerFields
    /\ DetectorFields

IngestNext ==
    \/ FsAppend \/ TailEnter \/ TailEvent \/ TailWrite \/ TailTick \/ TailRead
    \/ LsStart \/ LsRecv \/ LsSend
    \/ AdRecv \/ TickFire \/ AdTick \/ AdSend

IngestSpec == IngestInit /\ [][IngestNext]_vars

(***************************************************************************)
(* TopSpec: getTopPaths, getTopIPs and getTopUserAgents are called with    *)
(* every map over a few keys and with a limit below and above the number   *)
(* of keys.                                                                *)
(***************************************************************************)
TopInit ==
    /\ files = << <<>> >>
    /\ pathIno = 1
    /\ budget = [appends |-> 0, rotations |-> 0, truncs |-> 0, kinds |-> {},
                 ticks |-> 0]
    /\ TailerOwnFields
    /\ DetectorFields
    /\ ParserFields
    /\ parsers = [i \in ParserInstances |-> NewParser("json")]
    /\ topIn \in TopMaps
    /\ topLimit \in TopLimits
    /\ topOut = NoTop

TopNext == GetTopPaths \/ GetTopIPs \/ GetTopUserAgents

TopSpec == TopInit /\ [][TopNext]_vars

(***************************************************************************)
(* ParserSpec: goroutines call Parse on parsers of every format NewParser  *)
(* knows; two of them may be inside Parse on the same parser.              *)
(***************************************************************************)
ParserInit ==
    /\ files = << <<>> >>
    /\ pathIno = 1
    /\ budget = [appends |-> 0, rotations |-> 0, truncs |-> 0, kinds |-> {},
                 ticks |-> 0]
    /\ TailerOwnFields
    /\ DetectorFields
    /\ ParserFields
    /\ TopFields
    /\ parsers \in [ParserInstances -> {NewParser(f) : f \in Formats}]

ParserNext ==
    \E c \in ParseCallers :
        PsCall(c) \/ PsJson(c) \/ PsCheck(c) \/ PsCompile(c) \/ PsMatch(c)

ParserSpec == ParserInit /\ [][ParserNext]_vars

(***************************************************************************)
(* TickDetectSpec: the detector task ticks from an empty history; every    *)
(* tick archives its snapshot and passes the history to Detect.            *)
(***************************************************************************)
SpikeObs == [ZeroMetrics EXCEPT !.ErrorRate = RInt(1), !.RequestsPerSec = RInt(400),
                                !.AvgResponseTime = RInt(200)]

CalmObs == [ZeroMetrics EXCEPT !.ErrorRate = RNorm(1, 20), !.RequestsPerSec = RInt(100),
                               !.AvgResponseTime = RInt(50)]

TickObservations == {CalmObs, SpikeObs}

TickDetectors ==
    {NewStdDevDetector(RInt(2)),
     NewMovingAverageDetector(RInt(2), RNorm(1, 2)),
     NewCUSUMDetector(RNorm(1, 2), RInt(5))}

TickDetectInit ==
    /\ files = << <<>> >>
    /\ pathIno = 1
    /\ budget = [appends |-> 0, rotations |-> 0, truncs |-> 0, kinds |-> {},
                 ticks |-> 0]
    /\ TailerFields
    /\ det \in Call(<<"TickDetectors">>)
    /\ dHist = <<>>
    /\ dBudget = [calls |-> MaxDetectTicks, obs |-> Call(<<"TickObservations">>),
                  hists |-> {}]
    /\ nCalls = 0
    /\ lastCall = NoCall
    /\ run = NoRun

TickDetectNext == TickDetect

TickDetectSpec == TickDetectInit /\ [][TickDetectNext]_vars

(***************************************************************************)
(* ConstructSpec: the detector constructors are called with parameters in  *)
(* and out of range.                                                       *)
(***************************************************************************)
CtorValues ==
    {RInt(-1), RInt(0), RNorm(1, 100), RNorm(3, 10), RNorm(1, 2), RNorm(9, 10),
     RInt(1), RInt(2), RInt(5)}

ConstructFrame ==
    UNCHANGED <<tailerVars, collectorVars, pipeVars, parserVars, topVars, dHist,
                dBudget, nCalls, lastCall, run>>

\* ad.algorithm = NewMovingAverageDetector(threshold, alpha)
ConstructEwma ==
    /\ \E vals \in {Call(<<"CtorValues">>)} : \E threshold \in vals, alpha \in vals :
         /\ det' = Call(<<"NewMovingAverageDetector", threshold, alpha>>)
         /\ ctor' = [fn |-> "moving_average", a |-> threshold, b |-> alpha]
    /\ ConstructFrame

\* ad.algorithm = NewCUSUMDetector(slackParameter, decisionThreshold)
ConstructCusum ==
    /\ \E vals \in {Call(<<"CtorValues">>)} : \E slack \in vals, h \in vals :
         /\ det' = Call(<<"NewCUSUMDetector", slack, h>>)
         /\ ctor' = [fn |-> "cusum", a |-> slack, b |-> h]
    /\ ConstructFrame

ConstructInit ==
    /\ files = << <<>> >>
    /\ pathIno = 1
    /\ budget = [appends |-> 0, rotations |-> 0, truncs |-> 0, kinds |-> {},
                 ticks |-> 0]
    /\ TailerFields
    /\ DetectorFields

ConstructNext == ConstructEwma \/ ConstructCusum

ConstructSpec == ConstructInit /\ [][ConstructNext]_vars

(***************************************************************************)
(* DetectorSpec: one detector, of any of the three algorithms, called with *)
(* histories below and at the lengths the algorithms initialize on.        *)
(***************************************************************************)
Repeat(o, n) == [i \in 1..n |-> o]

\* a steady snapshot, and snapshots with one field away from it
SteadyObs == Obs(RNorm(1, 20), RInt(100), RInt(50))

Observations ==
    {SteadyObs,
     Obs(RNorm(3, 20), RInt(100), RInt(50)),
     Obs(RNorm(1, 20), RInt(150), RInt(75)),
     Obs(RNorm(1, 20), RInt(103), RInt(40)),
     Obs(RInt(0), RInt(0), RInt(0))}

Detectors ==
    {NewStdDevDetector(RInt(2)),
     NewMovingAverageDetector(RInt(2), RNorm(3, 10)),
     NewMovingAverageDetector(RNorm(1, 4), RInt(0)),
     NewCUSUMDetector(RNorm(1, 100), RInt(3)),
     NewCUSUMDetector(RInt(0), RInt(0))}

\* histories one snapshot short of the lengths the algorithms initialize on
ShortHistories ==
    {Repeat(o, n) : o \in {SteadyObs, Obs(RInt(0), RInt(0), RInt(0))},
                    n \in {EwmaMinHistory - 1, CusumMinHistory - 1}}

\* what a caller may do: it holds two histories, a short one and that one
\* with one more snapshot, and passes either of them to any call
CallerBudgets ==
    {[calls |-> MaxCalls, obs |-> Observations, hists |-> {h, Append(h, o)}] :
        h \in ShortHistories,
        o \in {SteadyObs, Obs(RNorm(3, 20), RInt(100), RInt(50)),
               Obs(RInt(0), RInt(0), RInt(0))}}

DetectorInit ==
    /\ files = << <<>> >>
    /\ pathIno = 1
    /\ budget = [appends |-> 0, rotations |-> 0, truncs |-> 0, kinds |-> {}, ticks |-> 0]
    /\ TailerFields
    /\ det \in Call(<<"Detectors">>)
    /\ dHist = <<>>
    /\ dBudget \in Call(<<"CallerBudgets">>)
    /\ nCalls = 0
    /\ lastCall = NoCall
    /\ run = NoRun

DetectorNext == StdDevCall \/ EwmaCall \/ CusumCall

DetectorSpec == DetectorInit /\ [][DetectorNext]_vars

(***************************************************************************)
(* CusumRunSpec: a CUSUM detector is initialized on a steady history and   *)
(* then called again and again with that history.                          *)
(***************************************************************************)
RunObservations ==
    {SteadyObs,
     Obs(RNorm(2, 25), RInt(100), RInt(50)),
     Obs(RInt(1), RInt(100), RInt(50)),
     Obs(RNorm(1, 20), RInt(103), RInt(50)),
     Obs(RNorm(1, 20), RInt(110), RInt(50)),
     Obs(RNorm(1, 20), RInt(97), RInt(50)),
     Obs(RNorm(1, 20), RInt(100), RInt(53)),
     Obs(RNorm(1, 20), RInt(100), RInt(47)),
     Obs(RNorm(1, 20), RInt(100), RNorm(201, 4))}

RunDetectors ==
    {NewCUSUMDetector(RNorm(1, 2), RInt(5)),
     NewCUSUMDetector(RNorm(1, 100), RInt(3))}

RunHistory == Repeat(SteadyObs, CusumMinHistory)

CusumRunInit ==
    /\ files = << <<>> >>
    /\ pathIno = 1
    /\ budget = [appends |-> 0, rotations |-> 0, truncs |-> 0, kinds |-> {}, ticks |-> 0]
    /\ TailerFields
    /\ det \in Call(<<"RunDetectors">>)
    /\ dHist = <<>>
    /\ \E os \in SUBSET Call(<<"RunObservations">>) :
         /\ Cardinality(os) = RunKinds
         /\ dBudget = [calls |-> MaxRunCalls, obs |-> os,
                       hists |-> {Call(<<"RunHistory">>)}]
    /\ nCalls = 0
    /\ lastCall = NoCall
    /\ run = NoRun

CusumRunNext == CusumCall

CusumRunSpec == CusumRunInit /\ [][CusumRunNext]_vars

(***************************************************************************)
(* Call(<<fn, a, b, ...>>) is the operation fn applied to the arguments a, *)
(* b, ..., for the operations that are applied by name; the sets of values *)
(* the specifications start from are operations without arguments.         *)
(***************************************************************************)
Call(c) ==
    CASE c[1] = "FAdd" -> FAdd(c[2], c[3])
      [] c[1] = "FMul" -> FMul(c[2], c[3])
      [] c[1] = "FLess" -> FLess(c[2], c[3])
      [] c[1] = "FInt" -> FInt(c[2])
      [] c[1] = "FRoundEven" -> FRoundEven(c[2], c[3], c[4], c[5])
      [] c[1] = "FDiv" -> FDiv(c[2], c[3])
      [] c[1] = "BLongDiv" -> BLongDiv(c[2], c[3])
      [] c[1] = "FSqrt" -> FSqrt(c[2])
      [] c[1] = "BNewtonSqrt" -> BNewtonSqrt(c[2])
      [] c[1] = "BDivDigit" -> BDivDigit(c[2], c[3])
      [] c[1] = "SqrtFrom" -> SqrtFrom(c[2], c[3])
      [] c[1] = "calculateStats" -> calculateStats(c[2], c[3])
      [] c[1] = "EwmaCheck" -> EwmaCheck(c[2], c[3], c[4])
      [] c[1] = "detectCUSUMAnomaly" -> detectCUSUMAnomaly(c[2], c[3], c[4])
      [] c[1] = "Detect" -> Detect(c[2], c[3], c[4])
      [] c[1] = "ComputeMetricsOf" -> ComputeMetricsOf(c[2], c[3], c[4], c[5], c[6])
      [] c[1] = "NewMovingAverageDetector" -> NewMovingAverageDetector(c[2], c[3])
      [] c[1] = "NewCUSUMDetector" -> NewCUSUMDetector(c[2], c[3])
      [] c[1] = "RunAfter" -> RunAfter(c[2], c[3])
      [] c[1] = "Detectors" -> Detectors
      [] c[1] = "CallerBudgets" -> CallerBudgets
      [] c[1] = "RunObservations" -> RunObservations
      [] c[1] = "RunDetectors" -> RunDetectors
      [] c[1] = "RunHistory" -> RunHistory
      [] c[1] = "TickObservations" -> TickObservations
      [] c[1] = "TickDetectors" -> TickDetectors
      [] c[1] = "CtorValues" -> CtorValues

(***************************************************************************)
(* Claims about the tailer.                                                *)
(***************************************************************************)
\* C1: provided the line channel never becomes full, every complete non-empty
\* line appended to the watched path after Start is eventually delivered on
\* the line channel, also around a truncation or a rotation.
C1_EveryLineDelivered ==
    ([](Len(lineChan) < LineChanCap)) => []<>(appended \subseteq EmittedLines)

\* C2: no line is delivered on the line channel more than once.
C2_NoLineTwice == NoDuplicates(emitted)

\* C4: a second call of Stop returns without panicking.
C4_StopIdempotent == panicked # "close of closed channel"

\* C5: once the context is cancelled and LogStream.Start and the tail loop
\* have returned, the watcher and the file handle are closed.
C5_ClosedAfterCancel ==
    (Alive /\ cancelled /\ lsPc = "done" /\ tlPc = "done" /\ xPc = "idle")
        => (~watcherOpen /\ ~file.open)

(***************************************************************************)
(* Claims about the collector.                                             *)
(***************************************************************************)
RECURSIVE SumField(_, _)
SumField(q, f) == IF q = <<>> THEN 0 ELSE Head(q)[f] + SumField(Tail(q), f)

\* a caller is between computeMetrics and the installation of the new window
Rolling == \E p \in Callers : cpc[p] \in {"cur_archive", "cur_roll"}

\* the snapshots appended to the history so far, in order
Archived ==
    LET n == Len(frozen) - Cardinality({p \in Callers : cpc[p] = "cur_archive"})
    IN [i \in 1..n |-> frozen[i]]

EveryEntryInOneSnapshot ==
    counted.total = SumField(sources, "total")
                      + IF Rolling THEN 0 ELSE mc.currentWindow.totalRequests

RollLeavesEmptyWindow ==
    \A p \in Callers : CurRoll(p) =>
        /\ mc'.currentWindow.totalRequests = 0
        /\ heldSnap' = frozen[Len(frozen)].m
        /\ mc'.historicalMetrics[Len(mc'.historicalMetrics)] = heldSnap'

\* C3: under every interleaving of AddLogEntry and GetCurrentMetrics calls,
\* every added entry is counted in exactly one snapshot or in the current
\* window (none lost, none counted twice), and the step that ends
\* GetCurrentMetrics leaves a window of zero requests, with the snapshot it
\* returns the last one of the history.
C3_RollAtomic == []EveryEntryInOneSnapshot /\ [][RollLeavesEmptyWindow]_vars

\* a second roll is about to install its window after entries were counted
\* in two snapshots
C3_Witness ==
    /\ \E p \in Callers : cpc[p] = "cur_roll"
    /\ Len(sources) >= 2
    /\ sources[1].total >= 1
    /\ sources[2].total >= 1

\* C8: the history holds at most MaxHistoricalSize snapshots and is the
\* most recent min(n, MaxHistoricalSize) snapshots produced, in the order
\* they were produced (so an append to a full history evicts the oldest one).
C8_HistoryFifo ==
    LET n == Len(Archived)
        k == Min(n, MaxHistoricalSize)
    IN /\ Len(mc.historicalMetrics) <= MaxHistoricalSize
       /\ mc.historicalMetrics = [i \in 1..k |-> Archived[n - k + i].m]

\* a snapshot was appended to a full history
C8_Witness ==
    /\ Len(Archived) > MaxHistoricalSize
    /\ Len(mc.historicalMetrics) = MaxHistoricalSize

\* C9: error_count <= total_requests in the window; the errors counted are
\* the entries with level "error" or status_code >= 400; every snapshot has
\* 0 <= error_rate <= 1, the rate of its source window, and error_rate and
\* avg_response_time are 0 when the window had no requests / no response times.
\* The snapshots are recorded one by one as they are computed: the rate of the
\* newest, checked in every state, is the rate of every snapshot.
C9_ErrorCounts ==
    /\ mc.currentWindow.errorCount <= mc.currentWindow.totalRequests
    /\ counted.errors = SumField(sources, "errors")
                          + IF Rolling THEN 0 ELSE mc.currentWindow.errorCount
    /\ \A i \in 1..Len(frozen) : sources[i].errors <= sources[i].total
    /\ frozen # <<>> =>
         LET m == frozen[Len(frozen)].m
             src == sources[Len(frozen)]
         IN /\ ~RLess(m.ErrorRate, RInt(0)) /\ ~RLess(RInt(1), m.ErrorRate)
            /\ src.total > 0 => m.ErrorRate = RDiv(RInt(src.errors), RInt(src.total))
            /\ src.total = 0 => m.ErrorRate = RInt(0)
            /\ src.times = 0 => m.AvgResponseTime = RInt(0)

\* a snapshot of an empty window, and a snapshot whose only entry is the
\* 404 entry of level "warn", counted as an error
C9_Witness ==
    /\ \E i \in 1..Len(frozen) : sources[i].total = 0
    /\ \E i \in 1..Len(frozen) :
         /\ sources[i].total = 1 /\ sources[i].errors = 1
         /\ 404 \in DOMAIN frozen[i].deep.StatusCodes
         /\ frozen[i].m.ErrorRate = RInt(1)

\* the position in frozen of the i-th snapshot of the history
ArchivedIndex(i) == Len(Archived) - Len(mc.historicalMetrics) + i

\* C10: whatever the caller does with the value GetHistoricalMetrics
\* returned, every snapshot of the collector's history, and the snapshot
\* GetCurrentMetrics returned last, reads as it did when it was computed.
C10_HistoryIndependent ==
    /\ \A i \in 1..Len(mc.historicalMetrics) :
         Deep(mc, mc.historicalMetrics[i]) = frozen[ArchivedIndex(i)].deep
    /\ \A i \in 1..Len(frozen) :
         heldSnap = frozen[i].m => Deep(mc, heldSnap) = frozen[i].deep

\* without a caller's mutation the snapshots do read as computed
HistoryStableWithoutMutation == nMut = 0 => C10_HistoryIndependent

(***************************************************************************)
(* Claims about the pipeline.                                              *)
(***************************************************************************)
\* the tail loop, LogStream.Start, AnomalyDetector.Start, handleInput and
\* broadcastLoop have returned (a tail loop that was never started counts)
AllTasksReturned ==
    /\ lsPc = "done"
    /\ tlPc \in {"idle", "done"}
    /\ adPc = "done"
    /\ hiPc = "done"
    /\ blPc = "done"

\* C6: after the context is cancelled every task of the pipeline eventually
\* returns (or the process has ended), whatever the channels hold at the
\* moment of cancellation.
C6_TasksReturnAfterCancel == cancelled ~> (AllTasksReturned \/ ~Alive)

\* in q the Metrics of a tick comes before every anomaly of that tick, and
\* everything of a tick comes before the Metrics of the next tick
OrderedByTick(q) ==
    \A j \in 1..Len(q) :
      /\ \A i \in 1..(j - 1) : q[i].tick <= q[j].tick
      /\ q[j].kind = "metrics" => \A i \in 1..(j - 1) : q[i].tick < q[j].tick
      /\ q[j].kind = "anomaly" =>
           \E i \in 1..(j - 1) : q[i].kind = "metrics" /\ q[i].tick = q[j].tick

\* C7: on the detector's output the Metrics of tick t is sent before every
\* anomaly of tick t, and all of them before the Metrics of tick t+1;
\* handleInput and broadcastLoop pass the values on in the order sent.
C7_MetricsBeforeAnomalies ==
    /\ OrderedByTick(outLog)
    /\ IsPrefix(relayed, outLog)
    /\ IsPrefix(broadcasted, relayed)

\* the detector has sent the Metrics of tick 1, the three anomalies Detect
\* found on it and the Metrics of tick 2; the broadcast loop has taken the
\* first of them, two more wait in s.broadcast and the last two in the
\* detector's output channel
C7_Witness ==
    /\ Len(outLog) = 5
    /\ outLog[1].kind = "metrics" /\ outLog[1].tick = 1
    /\ \A i \in 2..4 : outLog[i].kind = "anomaly" /\ outLog[i].tick = 1
    /\ outLog[5].kind = "metrics" /\ outLog[5].tick = 2
    /\ broadcasted = <<outLog[1]>>
    /\ broadcast = <<outLog[2], outLog[3]>>
    /\ detOut = <<outLog[4], outLog[5]>>

\* C11: requests_per_sec of a snapshot is the total of its window divided by
\* max(elapsed seconds since the window was created, 1); a window rolled
\* before one second has passed reports no more than its total.
C11_RpsClamped ==
    \A i \in 1..Len(frozen) :
        frozen[i].m.RequestsPerSec =
            RDiv(RInt(sources[i].total), RMax(Seconds(sources[i].elapsed), RInt(1)))


(***************************************************************************)
(* Claims about the detectors, stated on the last call of Detect: its      *)
(* arguments, the detector before it (lastCall.pre) and after it (det),    *)
(* and the anomalies it returned.                                          *)
(***************************************************************************)
\* the anomalies of the last call that are about a metric
OutOf(metric) ==
    {i \in 1..Len(lastCall.out) : lastCall.out[i].Metric = metric}

\* the last call was made on an initialized CUSUM detector, or initialized it
CusumStepped == lastCall.made /\ det.kind = "cusum" /\ det.initialized

\* the sums the last call started from
PriorPos(metric) ==
    IF lastCall.pre.initialized THEN lastCall.pre[PosField(metric)] ELSE RInt(0)

PriorNeg(metric) ==
    IF lastCall.pre.initialized THEN lastCall.pre[NegField(metric)] ELSE RInt(0)

\* S+ = max(0, S+ + (x - mu - k)) and S- = max(0, S- - (x - mu + k))
StepPos(metric) ==
    LET e == RSub(ValueOf(lastCall.cur, metric), det[RefField(metric)])
        t == RAdd(PriorPos(metric), RSub(e, det.slackParameter))
    IN IF RLess(t, RInt(0)) THEN RInt(0) ELSE t

StepNeg(metric) ==
    LET e == RSub(ValueOf(lastCall.cur, metric), det[RefField(metric)])
        t == RSub(PriorNeg(metric), RAdd(e, det.slackParameter))
    IN IF RLess(t, RInt(0)) THEN RInt(0) ELSE t

\* C12: a call on an initialized CUSUM detector updates, for each metric,
\* S+ to max(0, S+ + (x - mu - k)) and S- to max(0, S- - (x - mu + k)); it
\* returns an anomaly for the metric exactly when an updated sum is above h,
\* never two, with the reference as expected value and x as actual value, and
\* then both sums of the metric are 0 when the call returns.
C12_CusumStep ==
    CusumStepped =>
        \A m \in Metrics3 :
            LET over == \/ RLess(det.decisionThreshold, StepPos(m))
                        \/ RLess(det.decisionThreshold, StepNeg(m))
            IN /\ Cardinality(OutOf(m)) = (IF over THEN 1 ELSE 0)
               /\ \A i \in OutOf(m) :
                    /\ lastCall.out[i].ExpectedValue = det[RefField(m)]
                    /\ lastCall.out[i].ActualValue = ValueOf(lastCall.cur, m)
                    /\ lastCall.out[i].Type = TypeOf(m)
               /\ over => det[PosField(m)] = RInt(0) /\ det[NegField(m)] = RInt(0)
               /\ ~over => det[PosField(m)] = StepPos(m) /\ det[NegField(m)] = StepNeg(m)

\* a sum gathered over earlier calls passes the threshold and is reset
C12_Witness ==
    /\ CusumStepped
    /\ \E m \in Metrics3 :
         /\ OutOf(m) # {}
         /\ RLess(RInt(0), PriorPos(m))
         /\ ~RLess(det.decisionThreshold, PriorPos(m))
         /\ det[PosField(m)] = RInt(0)


\* how far the observation of the last call is above the reference, less the slack
ShiftUp(metric) ==
    RSub(RSub(ValueOf(lastCall.cur, metric), det[RefField(metric)]), det.slackParameter)

ShiftDown(metric) ==
    RSub(RSub(det[RefField(metric)], ValueOf(lastCall.cur, metric)), det.slackParameter)

\* floor(h / d) + 1, for d > 0
TicksToDetect(d) == RFloor(RDiv(det.decisionThreshold, d)) + 1

\* C13: on an initialized CUSUM detector, a metric observed at a constant x
\* with x - mu > k (or mu - x > k) gives an anomaly of the metric's type within
\* floor(h / (|x - mu| - k)) + 1 ticks: no run of calls observing x without an
\* anomaly is that long, and the anomaly is an upward (a downward) shift.
C13_ShiftDetected ==
    CusumStepped =>
        \A m \in Metrics3 :
            /\ RLess(RInt(0), ShiftUp(m)) =>
                 /\ run[m].n < TicksToDetect(ShiftUp(m))
                 /\ \A i \in OutOf(m) : /\ lastCall.out[i].Dir = "upward"
                                        /\ lastCall.out[i].Type = TypeOf(m)
            /\ RLess(RInt(0), ShiftDown(m)) =>
                 /\ run[m].n < TicksToDetect(ShiftDown(m))
                 /\ \A i \in OutOf(m) : /\ lastCall.out[i].Dir = "downward"
                                        /\ lastCall.out[i].Type = TypeOf(m)

\* the response time, below its reference for several ticks, is reported
C13_Witness ==
    /\ CusumStepped
    /\ RLess(RInt(0), ShiftDown("avg_response_time"))
    /\ RLess(RInt(0), PriorNeg("avg_response_time"))
    /\ \E i \in OutOf("avg_response_time") : lastCall.out[i].Dir = "downward"


\* C14: a CUSUM detector with slack 0.01 and decision threshold 3.0,
\* initialized on a history whose error rate is 0.05, returns an error_rate
\* anomaly within 10 consecutive ticks that observe the error rate 0.08: it
\* never makes 10 such calls in a row without one.
C14_ErrorRateShiftWithinTen ==
    (/\ CusumStepped
     /\ det.slackParameter = RNorm(1, 100)
     /\ det.decisionThreshold = RInt(3)
     /\ \A i \in 1..Len(lastCall.hist) : lastCall.hist[i].ErrorRate = RNorm(1, 20)
     /\ run["error_rate"].x = RNorm(2, 25))
        => run["error_rate"].n < 10


\* C15: on an initialized CUSUM detector, while every observation of a metric
\* has been strictly within the slack of its reference (|x - mu| < k), S+ and
\* S- of the metric are 0 and no call returns an anomaly of it.
C15_QuietWithinSlack ==
    CusumStepped =>
        \A m \in Metrics3 :
            run[m].quiet => /\ det[PosField(m)] = RInt(0)
                            /\ det[NegField(m)] = RInt(0)
                            /\ OutOf(m) = {}

\* the response time has stayed off its reference by less than the slack
C15_Witness ==
    /\ CusumStepped
    /\ nCalls >= 3
    /\ \A m \in Metrics3 : run[m].quiet
    /\ ValueOf(lastCall.cur, "avg_response_time") # det.referenceResponseTime
    /\ ValueOf(lastCall.cur, "avg_response_time") = run["avg_response_time"].x
    /\ run["avg_response_time"].n >= 2


\* the last call was made on an initialized EWMA detector, or initialized it
EwmaStepped == lastCall.made /\ det.kind = "moving_average" /\ det.initialized

\* the EWMA of a metric the last call started from
PriorEwma(metric) ==
    IF lastCall.pre.initialized THEN lastCall.pre[EwmaField(metric)]
    ELSE MeanOf(lastCall.hist, metric)

\* C16: every call on an initialized EWMA detector replaces each metric's
\* EWMA p by alpha * x + (1 - alpha) * p, whether the metric was flagged or
\* not.
C16_EwmaUpdated ==
    (EwmaStepped /\ lastCall.pre.initialized) =>
        \A m \in Metrics3 :
            LET p == lastCall.pre[EwmaField(m)]
                x == ValueOf(lastCall.cur, m)
            IN det[EwmaField(m)]
                 = RAdd(RMul(det.alpha, x), RMul(RSub(RInt(1), det.alpha), p))

\* p = 100, x = 150, alpha = 0.3: the request rate is flagged and its EWMA is 115
C16_Witness ==
    /\ EwmaStepped /\ lastCall.pre.initialized
    /\ det.alpha = RNorm(3, 10)
    /\ lastCall.pre.ewmaRequestsPerSec = RInt(100)
    /\ lastCall.cur.RequestsPerSec = RInt(150)
    /\ det.ewmaRequestsPerSec = RInt(115)
    /\ OutOf("requests_per_sec") # {}

\* C17: a call on an EWMA detector flags a metric exactly when its deviation
\* from the previous EWMA is above threshold * previous EWMA and the previous
\* EWMA is above 0.01 (error rate) or above 0 (request rate, response time);
\* the deviation is |x - prev| for error rate and request rate and x - prev for
\* the response time; the anomaly has expected = prev and actual = x.
C17_EwmaFlags ==
    EwmaStepped =>
        \A m \in Metrics3 :
            LET prev == PriorEwma(m)
                x == ValueOf(lastCall.cur, m)
                diff == RSub(x, prev)
                deviation == IF m = "avg_response_time" THEN diff
                             ELSE IF RLess(diff, RInt(0)) THEN RSub(prev, x) ELSE diff
                floor == IF m = "error_rate" THEN RNorm(1, 100) ELSE RInt(0)
                flag == RLess(RMul(det.threshold, prev), deviation) /\ RLess(floor, prev)
            IN /\ Cardinality(OutOf(m)) = (IF flag THEN 1 ELSE 0)
               /\ \A i \in OutOf(m) : /\ lastCall.out[i].ExpectedValue = prev
                                      /\ lastCall.out[i].ActualValue = x
                                      /\ lastCall.out[i].Type = TypeOf(m)

\* a rise of the response time is flagged against the EWMA of earlier calls
C17_Witness ==
    /\ EwmaStepped /\ lastCall.pre.initialized
    /\ \E i \in OutOf("avg_response_time") :
         /\ lastCall.out[i].ExpectedValue = lastCall.pre.ewmaAvgResponseTime
         /\ RLess(lastCall.pre.ewmaAvgResponseTime, lastCall.out[i].ActualValue)
    /\ OutOf("error_rate") = {}


\* the last call found the detector uninitialized and initialized it
Initializing ==
    /\ lastCall.made /\ lastCall.pre.kind # "stddev"
    /\ ~lastCall.pre.initialized /\ det.initialized

\* the sum of a metric over all the history the last call was given
HistoryTotal(metric) == SumValues(lastCall.hist, metric)

\* every snapshot of the history of the last call equals the current one
SteadyCall ==
    \A i \in 1..Len(lastCall.hist) :
        \A m \in Metrics3 : ValueOf(lastCall.hist[i], m) = ValueOf(lastCall.cur, m)

\* the arithmetic mean of a metric over all the history the last call was given
HistoryMean(metric) == RDiv(HistoryTotal(metric), RInt(Len(lastCall.hist)))

\* the first call of an EWMA detector with at least 5 snapshots of history (of
\* a CUSUM detector with at least 10) sets initialized and takes as baselines
\* the arithmetic means over all the history, and makes the steady-state step
\* in the same call from these means: the EWMA is alpha * x + (1 - alpha) * mean,
\* the CUSUM reference is the mean and the sums are stepped from 0
InitializedOnMean ==
    /\ (/\ lastCall.made /\ lastCall.pre.kind = "moving_average"
        /\ ~lastCall.pre.initialized /\ Len(lastCall.hist) >= 5)
           => /\ det.initialized
              /\ \A m \in Metrics3 :
                   det[EwmaField(m)]
                     = RAdd(RMul(det.alpha, ValueOf(lastCall.cur, m)),
                            RMul(RSub(RInt(1), det.alpha), HistoryMean(m)))
    /\ (/\ lastCall.made /\ lastCall.pre.kind = "cusum"
        /\ ~lastCall.pre.initialized /\ Len(lastCall.hist) >= 10)
           => /\ det.initialized
              /\ \A m \in Metrics3 :
                   /\ det[RefField(m)] = HistoryMean(m)
                   /\ OutOf(m) = {} => /\ det[PosField(m)] = StepPos(m)
                                       /\ det[NegField(m)] = StepNeg(m)

\* the baseline of a metric after the last call
BaselineOf(m) == IF det.kind = "cusum" THEN det[RefField(m)] ELSE det[EwmaField(m)]

\* C18: the first call of an EWMA detector with at least 5 snapshots
\* of history (of a CUSUM detector with at least 10) initializes the baselines
\* on the arithmetic means and makes the steady-state step from them, so that
\* with a constant history and an equal current snapshot the baselines are
\* that constant and there is no anomaly.
C18_InitializedOnMean ==
    /\ InitializedOnMean
    /\ (Initializing /\ SteadyCall)
           => /\ lastCall.out = <<>>
              /\ \A m \in Metrics3 : BaselineOf(m) = ValueOf(lastCall.cur, m)

\* 2^e
Pow2(e) == [s |-> 0, e |-> e, m |-> <<1>>]

\* a is within 2^-45 of b, relative to b
Near(a, b) == ~RLess(RMul(Pow2(0 - 45), RAbs(b)), RAbs(RSub(a, b)))


\* C19: no detector reports an anomaly from too little history: a StdDev
\* detector returns nothing when the history has fewer than 10 snapshots, an
\* uninitialized EWMA detector nothing with fewer than 5, an uninitialized
\* CUSUM detector nothing with fewer than 10, and these two are afterwards
\* still uninitialized with their state as before the call.
C19_ColdStartSilent ==
    lastCall.made =>
        /\ (lastCall.pre.kind = "stddev" /\ Len(lastCall.hist) < 10)
              => lastCall.out = <<>>
        /\ (/\ lastCall.pre.kind = "moving_average"
            /\ ~lastCall.pre.initialized /\ Len(lastCall.hist) < 5)
              => lastCall.out = <<>> /\ det = lastCall.pre /\ ~det.initialized
        /\ (/\ lastCall.pre.kind = "cusum"
            /\ ~lastCall.pre.initialized /\ Len(lastCall.hist) < 10)
              => lastCall.out = <<>> /\ det = lastCall.pre /\ ~det.initialized

\* an EWMA detector is called again on 4 snapshots, with a snapshot unlike them
C19_Witness ==
    /\ lastCall.made /\ det.kind = "moving_average"
    /\ nCalls >= 2
    /\ Len(lastCall.hist) = 4
    /\ lastCall.cur.ErrorRate # lastCall.hist[1].ErrorRate
    /\ ~det.initialized


\* the population mean of a metric over the history of the last call
PopMean(metric) == RDiv(HistoryTotal(metric), RInt(Len(lastCall.hist)))

\* the sum of (x - mu)^2 over the first n snapshots of that history
RECURSIVE SquaredDistances(_, _)
SquaredDistances(metric, n) ==
    IF n = 0 THEN RInt(0)
    ELSE LET dist == RSub(ValueOf(lastCall.hist[n], metric), PopMean(metric))
         IN RAdd(SquaredDistances(metric, n - 1), RMul(dist, dist))

\* the population standard deviation: the root of the mean squared distance
PopSigma(metric) ==
    RSqrt(RDiv(SquaredDistances(metric, Len(lastCall.hist)), RInt(Len(lastCall.hist))))

\* threshold * sigma
Sigmas(metric) == RMul(det.threshold, PopSigma(metric))

\* C20: a StdDev detector given at least 10 snapshots of history, with mu the
\* mean and sigma the population standard deviation of a metric over it,
\* returns an error_rate or traffic_spike anomaly exactly when
\* |current - mu| > threshold * sigma and a response_time anomaly exactly when
\* current > mu + threshold * sigma, never for a decrease; the anomaly has
\* expected = mu and actual = current.
C20_StdDevFlags ==
    (lastCall.made /\ det.kind = "stddev" /\ Len(lastCall.hist) >= 10) =>
        \A m \in Metrics3 :
            LET x == ValueOf(lastCall.cur, m)
                flag == IF m = "avg_response_time"
                        THEN RLess(RAdd(PopMean(m), Sigmas(m)), x)
                        ELSE RLess(Sigmas(m), RAbs(RSub(x, PopMean(m))))
            IN /\ Cardinality(OutOf(m)) = (IF flag THEN 1 ELSE 0)
               /\ \A i \in OutOf(m) : /\ lastCall.out[i].ExpectedValue = PopMean(m)
                                      /\ lastCall.out[i].ActualValue = x
                                      /\ lastCall.out[i].Type = TypeOf(m)

\* threshold 2.0, 10 snapshots of (0.05, 100, 50) and then (0.15, 100, 50):
\* exactly one anomaly, of type error_rate
C20_Witness ==
    /\ lastCall.made /\ det.kind = "stddev" /\ det.threshold = RInt(2)
    /\ Len(lastCall.hist) = 10
    /\ \A i \in 1..10 : lastCall.hist[i] = SteadyObs
    /\ lastCall.cur = Obs(RNorm(3, 20), RInt(100), RInt(50))
    /\ Len(lastCall.out) = 1
    /\ lastCall.out[1].Type = "error_rate"


\* C21: every anomaly a detector returns, after any calls, has a deviation
\* that is not negative; the deviation a CUSUM detector reports is x - mu for
\* an upward shift and mu - x for a downward one, and is greater than k.
C21_DeviationNotNegative ==
    lastCall.made =>
        \A i \in 1..Len(lastCall.out) :
            LET a == lastCall.out[i] IN
            /\ ~RLess(a.Deviation, RInt(0))
            /\ det.kind = "cusum" =>
                 /\ RLess(det.slackParameter, a.Deviation)
                 /\ a.Deviation = IF a.Dir = "upward"
                                  THEN RSub(a.ActualValue, a.ExpectedValue)
                                  ELSE RSub(a.ExpectedValue, a.ActualValue)

\* a CUSUM detector reports an upward shift gathered over several calls
C21_Witness ==
    /\ CusumStepped
    /\ \E i \in 1..Len(lastCall.out) :
         /\ lastCall.out[i].Dir = "upward"
         /\ RLess(RInt(0), PriorPos(lastCall.out[i].Metric))


(***************************************************************************)
(* Claims about the order and the fate of lines.                           *)
(***************************************************************************)
\* two lines whose first bytes are in the same file now
SameFile(l1, l2) ==
    \E ino \in 1..Len(files) : {l1[1], l2[1]} \subseteq Range(files[ino])

\* The lines of q that are in one file are in the order of their bytes in it.
\* A byte is unique to the append that wrote it and later appends write
\* greater bytes behind it, so the order of the bytes in a file is the order
\* of their values.
InFileOrder(q) ==
    \A i, j \in 1..Len(q) : (i < j /\ SameFile(q[i], q[j])) => q[i][1] <= q[j][1]

\* the lines on their way to the collector task, the oldest first: the
\* entries on LogStream's output, the entry it is sending, the line channel
InFlight ==
    [i \in 1..Len(output) |-> output[i].Message]
        \o (IF lsPc = "send" THEN <<lsHeld.Message>> ELSE <<>>)
        \o lineChan

\* C22: the lines of one file are put on the line channel in the order of
\* their bytes in the file, and LogStream forwards the parsed entries in that
\* order to the collector task: a line is never behind a line that follows it
\* in the file, neither among the lines put on the line channel nor among the
\* lines and entries on their way to the collector task.
C22_OrderKept == InFileOrder(emitted) /\ InFileOrder(InFlight)


\* C23: after Start on a file that has content, and as long as the file is
\* neither truncated nor rotated, no line with a byte that was in the file
\* before Start is delivered.
C23_NoReplay ==
    (nTrunc = 0 /\ nRot = 0) =>
        \A i \in 1..Len(emitted) : PreByte \notin Range(emitted[i])

\* a line appended behind the content the file had at Start has been delivered
C23_Witness ==
    /\ nTrunc = 0 /\ nRot = 0
    /\ pathIno # 0 /\ files[pathIno] # <<>> /\ files[pathIno][1] = PreByte
    /\ emitted # <<>>


\* C24: a line read while the line channel is full is dropped by the read
\* that found it, which goes on: the channel never holds more than its
\* capacity, t.offset is set behind the dropped line, and the dropped line is
\* not put on the channel later.
C24_DroppedForGood ==
    /\ Len(lineChan) <= LineChanCap
    /\ \A d \in dropped :
         /\ d.end <= d.off
         /\ \A i \in (d.at + 1)..Len(emitted) : emitted[i] # d.line


\* C25: once the context is cancelled or Stop was called while the tail loop
\* runs, the tail loop eventually returns and has closed the line channel; it
\* closes it once, and no line is put on the channel after that.
C25_LoopReturnsAndCloses ==
    /\ [][lineChanClosed => (lineChanClosed' /\ emitted' = emitted /\ tlPc' = tlPc)]_vars
    /\ ((tlPc \in {"top", "blocked", "write", "create", "read", "sleep"}
         /\ (cancelled \/ stopCh = "closed"))
           ~> (tlPc = "done" /\ lineChanClosed))


\* Tailer.Start returned an error: LogStream.Start has returned and the tail
\* loop was never started
StartFailed == lsPc = "done" /\ tlPc = "idle"

\* C26: when opening the file, seeking to its end, creating the watcher or
\* registering the path fails, the tail loop is not started and no line is
\* ever delivered, the file and the watcher that Start had acquired are
\* closed, and LogStream.Start has returned without forwarding an entry.
C26_StartFailsClean ==
    StartFailed =>
        /\ emitted = <<>> /\ lineChan = <<>> /\ ~lineChanClosed
        /\ ~file.open /\ ~watcherOpen
        /\ output = <<>> /\ lsHeld = ParseError

\* registering the path failed on a file that has a line: the file and the
\* watcher were acquired and are closed
C26_Witness ==
    /\ StartFailed
    /\ file.ino # 0 /\ files[file.ino] # <<>>
    /\ watcher = "set"


\* the Metrics values among the messages of q
MetricsIn(q) == {i \in 1..Len(q) : q[i].kind = "metrics"}

\* C27: the detector task skips no tick: every tick the ticker has fired was
\* handled or waits in ticker.C, also while the task is blocked in a send, and
\* every handled tick made one roll of the window and one Metrics value that
\* was sent or is being sent.
C27_NoTickSkipped ==
    /\ nTicks = tickNo + (IF tickPending THEN 1 ELSE 0)
    /\ Len(frozen) = tickNo
    /\ Cardinality(MetricsIn(outLog)) + Cardinality(MetricsIn(adQueue)) = tickNo


\* C28: Parse has no effect on the parser. No step of a Parse call changes a
\* parser object, and no step of a Parse call compiles a regular expression:
\* the expressions are compiled once for the process, outside Parse, so that
\* concurrent Parse calls on one parser write no shared state.
C28_ParseStateless ==
    [][parsers' = parsers /\ nCompiles' = nCompiles]_vars


\* the lines LogStream.Start has taken from the line channel, in order
Taken == SubSeq(emitted, 1, Len(emitted) - Len(lineChan))

\* the positions in Taken of the lines that parse
Parsed == {i \in 1 .. Len(Taken) : Parse(Taken[i]) # ParseError}

\* the entries between LogStream.Start and the collector
Forwarding == output \o (IF lsPc = "send" THEN <<lsHeld>> ELSE <<>>)

\* C29: a line that fails to parse is dropped by LogStream and never reaches
\* the collector. No parse failure is on its way to the collector, and the
\* total_requests and the error_count of all windows together, plus the
\* entries still on their way, are those of the lines that parsed: a line
\* that failed changes neither counter, and every line that parsed after it
\* is forwarded.
C29_UnparsableDropped ==
    /\ \A i \in 1 .. Len(Forwarding) : Forwarding[i] # ParseError
    /\ SumField(sources, "total") + mc.currentWindow.totalRequests
         + Len(Forwarding) = Cardinality(Parsed)
    /\ SumField(sources, "errors") + mc.currentWindow.errorCount
         + Cardinality({i \in 1 .. Len(Forwarding) : IsErrorEntry(Forwarding[i])})
       = Cardinality({i \in Parsed : IsErrorEntry(Parse(Taken[i]))})

\* a line that failed to parse was taken, a line taken after it parsed, and
\* the collector has counted every line that parsed
C29_Witness ==
    /\ \E i, j \in 1 .. Len(Taken) :
         i < j /\ Parse(Taken[i]) = ParseError /\ j \in Parsed
    /\ Forwarding = <<>>
    /\ counted.total = Cardinality(Parsed)
    /\ counted.total >= 2


\* the keys a result lists
Listed(r) == {r[i].Key : i \in 1 .. Len(r)}

\* the map of the spec's example: /a 3, /b 2, /c 2, /d 1
ExampleMap == (1 :> 3) @@ (2 :> 2) @@ (3 :> 2) @@ (4 :> 1)

\* C30: the list getTopPaths, getTopIPs or getTopUserAgents returns has
\* exactly min(limit, distinct keys) entries (limit is 10 in computeMetrics)
\* and none for an empty map; its counts do not increase; each entry carries
\* the count the map holds for its key; and every key it omits has a count
\* no greater than the smallest listed one. For the example map with limit 3
\* the first entry is /a and the next two are /b and /c in either order.
C30_TopNSorted ==
    topOut # NoTop =>
        LET r == topOut.result
            n == Len(r)
        IN /\ n = Min(topLimit, Cardinality(DOMAIN topIn))
           /\ (DOMAIN topIn = {}) => r = <<>>
           /\ \A i \in 1 .. (n - 1) : r[i].Count >= r[i + 1].Count
           /\ \A i \in 1 .. n : r[i].Key \in DOMAIN topIn /\ r[i].Count = topIn[r[i].Key]
           /\ Cardinality(Listed(r)) = n
           /\ \A k \in DOMAIN topIn \ Listed(r) : topIn[k] <= r[n].Count
           /\ (topIn = ExampleMap /\ topLimit = ExampleLimit) =>
                 r[1].Key = 1 /\ {r[2].Key, r[3].Key} = {2, 3}

\* the example map was passed with limit 3 and /c came back before /b
C30_Witness ==
    /\ topIn = ExampleMap /\ topLimit = ExampleLimit
    /\ topOut.fn = "paths"
    /\ Len(topOut.result) = 3
    /\ topOut.result[2].Key = 3


\* a parameter is in (0, 1)
InUnit(x) == RLess(RInt(0), x) /\ RLess(x, RInt(1))

\* C31: the constructors replace out-of-range parameters by defaults and
\* keep valid ones. NewMovingAverageDetector turns alpha <= 0 or alpha >= 1
\* into 0.3 and keeps the threshold; NewCUSUMDetector turns slack <= 0 into
\* 0.5 and a decision threshold <= 0 into 5; both detectors start
\* uninitialized with every accumulator and baseline at 0.
C31_ConstructorDefaults ==
    /\ ctor.fn = "moving_average" =>
         /\ det.kind = "moving_average"
         /\ det.threshold = ctor.a
         /\ det.alpha = (IF InUnit(ctor.b) THEN ctor.b ELSE RNorm(3, 10))
         /\ ~det.initialized
         /\ \A m \in Metrics3 : det[EwmaField(m)] = RInt(0)
    /\ ctor.fn = "cusum" =>
         /\ det.kind = "cusum"
         /\ det.slackParameter = (IF RLess(RInt(0), ctor.a) THEN ctor.a ELSE RNorm(1, 2))
         /\ det.decisionThreshold = (IF RLess(RInt(0), ctor.b) THEN ctor.b ELSE RInt(5))
         /\ ~det.initialized
         /\ \A m \in Metrics3 :
              /\ det[PosField(m)] = RInt(0) /\ det[NegField(m)] = RInt(0)
              /\ det[RefField(m)] = RInt(0)

\* NewMovingAverageDetector was called with alpha = 1 and stored 0.3
C31_Witness ==
    /\ ctor.fn = "moving_average" /\ ctor.b = RInt(1)
    /\ det.alpha = RNorm(3, 10)


\* C32: a Stop that runs concurrently with the tail loop is safe. The tail
\* loop never evaluates the select of its next iteration on a watcher that
\* Stop has set to nil: no run ends in the nil dereference of
\* t.watcher.Events.
C32_StopSafe == panicked # "nil dereference"


\* the tailer has read its file up to the end and is not inside a read
CaughtUp ==
    /\ file.ino # 0 /\ file.open /\ file.pos = Len(files[file.ino])
    /\ tlPc # "read"

\* C33: bytes read without a terminating newline are kept and prepended when
\* the rest arrives. While the file is neither truncated nor rotated and no
\* line is dropped, a tailer that has read up to the end of the file holds
\* in its buffer all the bytes after the last newline, and every line it
\* delivers is a whole line as appended, the concatenation of its fragments
\* without the trailing \n and \r, delivered once and never empty.
C33_FragmentsJoined ==
    (nRot = 0 /\ nTrunc = 0 /\ dropped = {}) =>
        /\ CaughtUp => incomplete = LastPartial(files[file.ino])
        /\ Range(emitted) \subseteq appended
        /\ NoDuplicates(emitted)
        /\ \A i \in 1 .. Len(emitted) : emitted[i] # <<>>


\* a call of readNewLines on an open file, from the ticker or a Write event,
\* up to its read loop
ReadStep ==
    /\ TailTick \/ TailWrite
    /\ file.ino # 0 /\ file.open

\* the first iteration of the read loop on a handle that is at the start of
\* its file
FirstRead == TailRead /\ file.pos = 0 /\ reader = <<>>

\* the first line of the file, up to its newline
FirstLine(c) == SubSeq(c, 1, IndexNL(c))

\* C34: a read that finds the file shorter than the recorded offset sets the
\* offset to 0, seeks to the start, empties the incomplete-line buffer and
\* delivers nothing; a read that follows such a reset delivers the content
\* from its first byte; a read that finds the size equal to the offset
\* leaves offset, buffer, file position and channel as they were.
C34_TruncationReset ==
    [][/\ ReadStep =>
            LET c == files[file.ino] IN
            /\ Len(c) < offset =>
                 /\ offset' = 0 /\ file'.pos = 0 /\ incomplete' = <<>>
                 /\ lineChan' = lineChan /\ emitted' = emitted
                 /\ tlPc' = "top"
            /\ Len(c) = offset =>
                 /\ UNCHANGED <<offset, incomplete, file, lineChan, emitted>>
                 /\ tlPc' = "top"
       /\ FirstRead =>
            LET c == files[file.ino] IN
            ( /\ nTrunc > 0 /\ nRot = 0 /\ offset = 0
              /\ Len(lineChan) < LineChanCap
              /\ IndexNL(c) > 0 /\ StripEOL(FirstLine(c)) # <<>> ) =>
              /\ Len(emitted') > Len(emitted)
              /\ emitted'[Len(emitted) + 1] = StripEOL(FirstLine(c))
    ]_vars

\* a line was read, the file was truncated, the read that followed reset the
\* tailer, and the line appended next was delivered from the start of the file
C34_Witness ==
    /\ nTrunc = 1 /\ nRot = 0
    /\ file.ino # 0 /\ files[file.ino] = <<PreByte + 2, NL>>
    /\ emitted = << <<PreByte + 1>>, <<PreByte + 2>> >>


\* C35: when the reopen after a Remove or Rename event fails, the file handle
\* is left nil, so that reads are skipped until a later event reopens the
\* path: at every moment of a started tailer t.file is nil or an open file.
C35_ReopenFailureNil == (tlPc # "idle") => (file.ino = 0 \/ file.open)


\* C36: in the pipeline the history passed to Detect at a tick ends with
\* that tick's own snapshot, so the baseline includes the value under
\* test; StdDev and CUSUM report nothing before the 10th tick and EWMA
\* nothing before the 5th, and EWMA and CUSUM are initialized from the 5th
\* and the 10th tick on.
C36_HistoryHoldsCurrent ==
    lastCall.made =>
        /\ lastCall.hist # <<>>
        /\ lastCall.hist[Len(lastCall.hist)] = lastCall.cur
        /\ Len(lastCall.hist) = nCalls
        /\ det.kind \in {"stddev", "cusum"} =>
             (nCalls < StdDevMinHistory => lastCall.out = <<>>)
        /\ det.kind = "cusum" => (det.initialized <=> nCalls >= CusumMinHistory)
        /\ det.kind = "moving_average" =>
             /\ nCalls < EwmaMinHistory => lastCall.out = <<>>
             /\ det.initialized <=> nCalls >= EwmaMinHistory

\* the StdDev detector reports the spike of the 10th tick against a baseline
\* of nine calm snapshots and the spike itself
C36_Witness ==
    /\ det.kind = "stddev" /\ nCalls = StdDevMinHistory
    /\ lastCall.cur = SpikeObs
    /\ \A i \in 1 .. (StdDevMinHistory - 1) : lastCall.hist[i] = CalmObs
    /\ lastCall.out # <<>>


\* 0 <= a <= b
Between0(a, b) == ~RLess(a, RInt(0)) /\ ~RLess(b, a)

\* C37: after every CUSUM Detect call each sum of each metric satisfies
\* 0 <= S <= h, and in no call do the updated S+ and S- of one metric both
\* exceed h: the upward check is never taken over a simultaneous downward
\* crossing.
C37_SumsBounded ==
    det.kind = "cusum" =>
        \A m \in Metrics3 :
            /\ Between0(det[PosField(m)], det.decisionThreshold)
            /\ Between0(det[NegField(m)], det.decisionThreshold)
            /\ CusumStepped =>
                 ~ ( /\ RLess(det.decisionThreshold, StepPos(m))
                     /\ RLess(det.decisionThreshold, StepNeg(m)) )

\* a call took S+ of a metric from a positive value to above h and reset it,
\* while another metric keeps a positive sum below h
C37_Witness ==
    /\ CusumStepped
    /\ \E m \in Metrics3 :
         /\ RLess(RInt(0), PriorPos(m))
         /\ RLess(det.decisionThreshold, StepPos(m))
         /\ det[PosField(m)] = RInt(0)
    /\ \E m \in Metrics3 :
         RLess(RInt(0), det[NegField(m)]) \/ RLess(RInt(0), det[PosField(m)])


\* C38: with a threshold of 1 or more and metrics that are not negative the
\* EWMA detector never flags a decrease: a call in which a metric is below
\* its previous EWMA, even at 0, returns no anomaly for that metric.
C38_NoDecreaseFlagged ==
    (EwmaStepped /\ ~RLess(det.threshold, RInt(1))) =>
        \A m \in Metrics3 :
            RLess(ValueOf(lastCall.cur, m), PriorEwma(m)) => OutOf(m) = {}

\* the request rate and the error rate fell to 0 from a positive EWMA under a
\* threshold of 2, and nothing was reported for them
C38_Witness ==
    /\ EwmaStepped /\ det.threshold = RInt(2)
    /\ lastCall.cur.RequestsPerSec = RInt(0) /\ lastCall.cur.ErrorRate = RInt(0)
    /\ RLess(RInt(0), PriorEwma("requests_per_sec"))
    /\ RLess(RNorm(1, 100), PriorEwma("error_rate"))
    /\ OutOf("requests_per_sec") = {} /\ OutOf("error_rate") = {}

\* a call on a detector whose initialized flag was already set
LaterCall ==
    /\ lastCall.made
    /\ lastCall.pre.kind \in {"moving_average", "cusum"}
    /\ lastCall.pre.initialized

\* histories other than the one the call was given: none, a shorter one, and
\* one of other values
OtherHistories ==
    {<<>>,
     SubSeq(lastCall.hist, 1, 1),
     Repeat(Obs(RInt(1), RInt(7), RInt(9)), CusumMinHistory)}

\* the call returned what it returns on any other history
HistoryIgnored ==
    \A h \in OtherHistories :
        Detect(lastCall.pre, lastCall.cur, h) = [d |-> det, out |-> lastCall.out]

\* the flag stays set, the history is ignored and the CUSUM references stay
FlagMonotone ==
    /\ det.initialized
    /\ HistoryIgnored
    /\ det.kind = "cusum" =>
          \A m \in Metrics3 : det[RefField(m)] = lastCall.pre[RefField(m)]

\* C39 as stated: once the initialized flag is set it stays set, every later
\* call ignores its history, the CUSUM reference means never change, and the
\* EWMA baseline of every metric differs after every call from what it was.
C39_BaselineChangesEveryCall ==
    LaterCall =>
        /\ FlagMonotone
        /\ det.kind = "moving_average" =>
              \A m \in Metrics3 : det[EwmaField(m)] # PriorEwma(m)

\* alpha * |x - prev| is above the rounding of the step
MovesBeyondRounding(alpha, x, prev) ==
    RLess(RMul(Pow2(0 - 45), RMax(RAbs(x), RAbs(prev))), RMul(alpha, RAbs(RSub(x, prev))))

\* C39, amended: once the initialized flag of an EWMA or CUSUM detector is set
\* it stays set, every later call ignores its history (an empty or shorter one
\* too), the CUSUM reference means never change, and every call recomputes the
\* EWMA baseline as alpha * x + (1 - alpha) * previous: it changes when the
\* observation differs from it by more than the rounding of the step, and is
\* what it was, up to that rounding, when the observation equals it.
C39_InitializedMonotone ==
    LaterCall =>
        /\ FlagMonotone
        /\ det.kind = "moving_average" =>
              \A m \in Metrics3 :
                  LET x == ValueOf(lastCall.cur, m)
                      prev == PriorEwma(m)
                  IN /\ det[EwmaField(m)]
                          = RAdd(RMul(det.alpha, x), RMul(RSub(RInt(1), det.alpha), prev))
                     /\ MovesBeyondRounding(det.alpha, x, prev) => det[EwmaField(m)] # prev
                     /\ x = prev => Near(det[EwmaField(m)], prev)

\* an initialized EWMA detector was called with a snapshot whose request rate
\* equals the baseline and whose error rate does not: the first baseline
\* stayed, the second moved
C39_Witness ==
    /\ LaterCall /\ det.kind = "moving_average"
    /\ lastCall.cur.RequestsPerSec = PriorEwma("requests_per_sec")
    /\ det[EwmaField("requests_per_sec")] = PriorEwma("requests_per_sec")
    /\ RLess(RInt(0), PriorEwma("requests_per_sec"))
    /\ lastCall.cur.ErrorRate # PriorEwma("error_rate")
    /\ det[EwmaField("error_rate")] # PriorEwma("error_rate")

\* C40: the broadcast loop never deadlocks: when a write to a client fails the
\* client is removed from the registry and the loop goes on, back to its
\* select (or to its return after cancellation) to deliver what follows.
C40_BroadcastGoesOn ==
    \A c \in Conns :
        (blPc = "remove" /\ blClient = c)
            ~> (c \notin clients /\ blPc \in {"select", "done"})

=============================================================================
